---- MODULE Spec2Model ----
(***************************************************************************)
(* Model of the CircleCI Terraform provider: the shared API client         *)
(* (MakeRequest, Get/Post/Put/Delete, BuildURL, GetAllPages), the          *)
(* composite import identifiers, and the Create/Read/Update/Delete         *)
(* handlers of the fourteen resource types.  The CircleCI server and the   *)
(* Terraform host are the environment: every HTTP answer and every plan    *)
(* is drawn nondeterministically from small sets.                          *)
(***************************************************************************)
EXTENDS Integers, Sequences, FiniteSets, TLC

VARIABLES
    creq,      \* client: the request handed to MakeRequest and the server's answer
    cret,      \* client: what MakeRequest / Get returned for creq
    pg,        \* GetAllPages: the locals of the running call and its log of GETs
    imp,       \* ImportState: the last import request and its response
    kind,      \* resource: the resource type of the instance under management
    tfstate,   \* resource: the state Terraform tracks for the instance (Null = untracked)
    last,      \* resource: the last lifecycle call: its name, plan, HTTP calls and response
    client     \* provider: the client Configure built and every handler shares (Null = none)

vars == <<creq, cret, pg, imp, kind, tfstate, last, client>>

Null == [null |-> TRUE]

\* ------------------------------------------------------------------------
\* HTTP answers
\* ------------------------------------------------------------------------

\* Status codes the server may answer with.
Statuses == {200, 201, 204, 400, 404, 500}

\* A response body as the bytes on the wire, described by what a JSON
\* decoder makes of it: valid = it parses as JSON, typed = the present
\* fields have the types of the Go struct, fields = the keys present.
\* Absent keys decode to the zero value of their Go type.
MkBody(raw, valid, typed, fields, message, code) ==
    [raw |-> raw, valid |-> valid, typed |-> typed, fields |-> fields,
     message |-> message, code |-> code]

BodyEmpty      == MkBody("", FALSE, FALSE, {}, "", 0)
BodyHTML       == MkBody("<html>", FALSE, FALSE, {}, "", 0)
BodyMsgCode    == MkBody("{message,code}", TRUE, TRUE, {"message", "code"}, "not found", 7)
BodyMsgStatus  == MkBody("{message,code=404}", TRUE, TRUE, {"message", "code"}, "not found", 404)
BodyMsgOnly    == MkBody("{message}", TRUE, TRUE, {"message"}, "not found", 0)
BodyBadCode    == MkBody("{message,code:str}", TRUE, FALSE, {"message", "code"}, "not found", 0)
BodyOther      == MkBody("{id}", TRUE, TRUE, {"id"}, "", 0)

ErrorBodies == {BodyEmpty, BodyHTML, BodyMsgCode, BodyMsgStatus, BodyMsgOnly, BodyBadCode, BodyOther}

Methods == {"GET", "POST", "PUT", "DELETE"}

\* ------------------------------------------------------------------------
\* API client
\* ------------------------------------------------------------------------

\* json.Unmarshal(bodyBytes, &apiErr): fails on invalid JSON and on a field
\* of the wrong type; otherwise absent fields keep their zero value.
UnmarshalAPIError(body) ==
    IF ~body.valid \/ ~body.typed
    THEN [err |-> TRUE, val |-> [Message |-> [status |-> 0, text |-> ""], Code |-> 0]]
    ELSE [err |-> FALSE,
          val |-> [Message |-> [status |-> 0,
                                text |-> IF "message" \in body.fields THEN body.message ELSE ""],
                   Code |-> IF "code" \in body.fields THEN body.code ELSE 0]]

\* A bug: the fallback message without the HTTP status.
SprintfBodyOnly(status, raw) == [status |-> 0, text |-> raw]

\* fmt.Sprintf("HTTP %d: %s", status, body): the text keeps both arguments.
SprintfHTTP(status, raw) == [status |-> status, text |-> raw]

NoError == [kind |-> "none"]

\* A bug: a 404 comes back as a response, without error.
MakeRequestPasses404(method, answer) ==
    IF ~answer.transport
    THEN [resp |-> Null, err |-> [kind |-> "transport"]]
    ELSE IF answer.status >= 400 /\ answer.status # 404
         THEN [resp |-> Null,
               err |-> [kind |-> "api", Message |-> SprintfHTTP(answer.status, answer.body.raw),
                        Code |-> answer.status]]
         ELSE [resp |-> [StatusCode |-> answer.status, Body |-> answer.body], err |-> NoError]

\* MakeRequest: transport failure -> wrapped error; status >= 400 -> APIError
\* and a nil response; otherwise the response itself.
MakeRequest(method, answer) ==
    IF ~answer.transport
    THEN [resp |-> Null, err |-> [kind |-> "transport"]]
    ELSE IF answer.status >= 400
         THEN LET u == UnmarshalAPIError(answer.body)
                  apiErr == IF u.err
                            THEN [Message |-> SprintfHTTP(answer.status, answer.body.raw),
                                  Code |-> answer.status]
                            ELSE u.val
              IN [resp |-> Null,
                  err |-> [kind |-> "api", Message |-> apiErr.Message, Code |-> apiErr.Code]]
         ELSE [resp |-> [StatusCode |-> answer.status, Body |-> answer.body], err |-> NoError]

\* json.NewDecoder(resp.Body).Decode(result): fails on a body that is not
\* JSON (an empty body included) or whose fields have the wrong type.
DecodeFails(body) == ~body.valid \/ ~body.typed

\* Get/Post/Put: MakeRequest, then decode the body when a result is wanted.
\* The response itself never leaves the wrapper.
Wrapper(method, answer, wantResult) ==
    LET r == MakeRequest(method, answer)
    IN IF r.err # NoError
       THEN [resp |-> Null, err |-> r.err, result |-> Null]
       ELSE IF wantResult /\ DecodeFails(r.resp.Body)
            THEN [resp |-> Null, err |-> [kind |-> "decode"], result |-> Null]
            ELSE [resp |-> Null, err |-> NoError,
                  result |-> IF wantResult THEN r.resp.Body ELSE Null]

Get(answer, wantResult) == Wrapper("GET", answer, wantResult)
Post(answer, wantResult) == Wrapper("POST", answer, wantResult)
Put(answer, wantResult) == Wrapper("PUT", answer, wantResult)
\* Delete: MakeRequest and nothing else.
Delete(answer) == Wrapper("DELETE", answer, FALSE)

\* The answers of the environment to one HTTP request: the transport fails,
\* or the server answers with a status and a body.
TransportFailure == [transport |-> FALSE, status |-> 0, body |-> BodyEmpty]
Answers(bodies) ==
    {TransportFailure} \cup [transport : {TRUE}, status : Statuses, body : bodies]

Idle == [fn |-> "none"]

\* ------------------------------------------------------------------------
\* Specification of the client alone: one call after another, each with an
\* arbitrary answer.
\* ------------------------------------------------------------------------

ClientInit ==
    /\ creq = Idle
    /\ cret = Idle
    /\ pg = Idle
    /\ imp = Idle
    /\ kind = "none"
    /\ tfstate = Null
    /\ last = Idle
    /\ client = Null

CallMakeRequest ==
    \E m \in Methods, a \in Answers(ErrorBodies) :
        /\ creq' = [fn |-> "MakeRequest", method |-> m, answer |-> a, wantResult |-> FALSE]
        /\ cret' = MakeRequest(m, a) @@ [result |-> Null]
        /\ UNCHANGED <<pg, imp, kind, tfstate, last, client>>

CallGet ==
    \E a \in Answers(ErrorBodies), w \in BOOLEAN :
        /\ creq' = [fn |-> "Get", method |-> "GET", answer |-> a, wantResult |-> w]
        /\ cret' = Get(a, w)
        /\ UNCHANGED <<pg, imp, kind, tfstate, last, client>>

CallPost ==
    \E a \in Answers(ErrorBodies), w \in BOOLEAN :
        /\ creq' = [fn |-> "Post", method |-> "POST", answer |-> a, wantResult |-> w]
        /\ cret' = Post(a, w)
        /\ UNCHANGED <<pg, imp, kind, tfstate, last, client>>

CallPut ==
    \E a \in Answers(ErrorBodies), w \in BOOLEAN :
        /\ creq' = [fn |-> "Put", method |-> "PUT", answer |-> a, wantResult |-> w]
        /\ cret' = Put(a, w)
        /\ UNCHANGED <<pg, imp, kind, tfstate, last, client>>

CallDelete ==
    \E a \in Answers(ErrorBodies) :
        /\ creq' = [fn |-> "Delete", method |-> "DELETE", answer |-> a, wantResult |-> FALSE]
        /\ cret' = Delete(a)
        /\ UNCHANGED <<pg, imp, kind, tfstate, last, client>>

ClientNext == CallMakeRequest \/ CallGet \/ CallPost \/ CallPut \/ CallDelete

SpecClient == ClientInit /\ [][ClientNext]_vars

\* The call under consideration was answered with an error status.
AnsweredWithErrorStatus ==
    creq # Idle /\ creq.answer.transport /\ creq.answer.status >= 400

\* C3: for every answer with status >= 400, MakeRequest and the wrappers
\* return an APIError and no response (and no result); when the body does not
\* decode as a JSON error object, the error carries the raw HTTP status and
\* the raw body text.
C3_ErrorStatusIsAPIError ==
    AnsweredWithErrorStatus =>
        /\ cret.resp = Null
        /\ cret.result = Null
        /\ cret.err.kind = "api"
        /\ (~creq.answer.body.valid \/ ~creq.answer.body.typed) =>
              /\ cret.err.Code = creq.answer.status
              /\ cret.err.Message.status = creq.answer.status
              /\ cret.err.Message.text = creq.answer.body.raw

\* C3 witness: a 500 with an HTML body went through MakeRequest.
C3_Witness ==
    /\ creq # Idle
    /\ creq.fn = "MakeRequest"
    /\ creq.answer.transport
    /\ creq.answer.status = 500
    /\ creq.answer.body = BodyHTML
    /\ cret.err.kind = "api"

\* C4 (as claimed): for every answer with status >= 400 whose body decodes
\* as a {message, code} object, with or without the code field, the error
\* keeps the status or the code of the failure.
C4_StatusOrCodePreserved ==
    (/\ AnsweredWithErrorStatus
     /\ creq.answer.body.valid /\ creq.answer.body.typed
     /\ "message" \in creq.answer.body.fields) =>
        /\ cret.err.kind = "api"
        /\ \/ cret.err.Code = creq.answer.status
           \/ cret.err.Message.status = creq.answer.status
           \/ "code" \in creq.answer.body.fields /\ cret.err.Code = creq.answer.body.code

\* ------------------------------------------------------------------------
\* BuildURL and GetAllPages
\* ------------------------------------------------------------------------

\* Query parameters are maps from keys to values; the empty map is <<>>.
NoParams == <<>>

\* Endpoints a caller may pass.  parses: url.Parse(endpoint) succeeds;
\* requestable: http.NewRequestWithContext accepts BaseURL + endpoint;
\* query: the query string the endpoint already carries.
EndpointPlain    == [path |-> "/items", parses |-> TRUE, requestable |-> TRUE, query |-> NoParams]
EndpointQuery    == [path |-> "/items?limit=9", parses |-> TRUE, requestable |-> TRUE,
                     query |-> ("limit" :> "9")]
\* No leading slash and a colon in the first segment: not a relative URL on
\* its own, but a valid path once appended to the base URL.
EndpointColon    == [path |-> "1a:b", parses |-> FALSE, requestable |-> TRUE, query |-> NoParams]
\* A broken percent-escape: invalid alone and appended to the base URL.
EndpointBadEsc   == [path |-> "/items%zz", parses |-> FALSE, requestable |-> FALSE, query |-> NoParams]

Endpoints == {EndpointPlain, EndpointQuery, EndpointColon, EndpointBadEsc}

\* q.Set(key, value) for every key of params, over the map q.
SetAll(q, params) ==
    [k \in DOMAIN q \cup DOMAIN params |-> IF k \in DOMAIN params THEN params[k] ELSE q[k]]

\* BuildURL: the endpoint unchanged when there are no params or when it does
\* not parse; otherwise its query with every param set.
BuildURL(endpoint, params) ==
    IF DOMAIN params = {}
    THEN [path |-> endpoint.path, query |-> endpoint.query, requestable |-> endpoint.requestable]
    ELSE IF ~endpoint.parses
         THEN [path |-> endpoint.path, query |-> endpoint.query,
               requestable |-> endpoint.requestable]
         ELSE [path |-> endpoint.path, query |-> SetAll(endpoint.query, params),
               requestable |-> endpoint.requestable]

\* A page of a paginated list: {items: [...], next_page_token: "..."}.
PageBody(items, next) ==
    [raw |-> "{items,next_page_token}", valid |-> TRUE, typed |-> TRUE,
     fields |-> {"items"} \cup (IF next = "" THEN {} ELSE {"next_page_token"}),
     message |-> "", code |-> 0, items |-> items, next_page_token |-> next]

\* The most GETs one modelled call of GetAllPages issues.
MaxPages == 3

PageItemSeqs == {<<>>, <<1>>, <<2, 1>>}
PageTokens == {"", "a", "b"}

PageAnswers ==
    {[transport |-> TRUE, status |-> 200, body |-> PageBody(i, t)] :
        i \in PageItemSeqs, t \in PageTokens}

\* A page request that fails: in transport, with an error status, or with a
\* body that is not JSON.
FailedPageAnswers ==
    {TransportFailure,
     [transport |-> TRUE, status |-> 500, body |-> BodyMsgOnly],
     [transport |-> TRUE, status |-> 200, body |-> BodyHTML]}

CallerParams ==
    {NoParams, ("limit" :> "5"), ("page-token" :> "x"),
     ("limit" :> "5") @@ ("page-token" :> "x")}

\* The query parameters of one iteration: a copy of the caller's params, with
\* page-token set when a token is pending.
QueryParams(params, nextPageToken) ==
    IF nextPageToken # ""
    THEN SetAll(params, ("page-token" :> nextPageToken))
    ELSE params

PagesInit ==
    /\ creq = Idle
    /\ cret = Idle
    /\ pg = [fn |-> "GetAllPages", pc |-> "idle"]
    /\ imp = Idle
    /\ kind = "none"
    /\ tfstate = Null
    /\ last = Idle
    /\ client = Null

\* A caller enters GetAllPages: allItems is nil, nextPageToken is "".
GetAllPagesCall ==
    /\ pg.pc \in {"idle", "done"}
    /\ \E e \in Endpoints, p \in CallerParams :
        pg' = [fn |-> "GetAllPages", pc |-> "loop", endpoint |-> e,
               paramsAtCall |-> p, params |-> p,
               allItems |-> <<>>, nextPageToken |-> "",
               gets |-> <<>>, answers |-> <<>>,
               ret |-> Null]
    /\ UNCHANGED <<creq, cret, imp, kind, tfstate, last, client>>

\* A bug that keeps only the items of the page just read.
AccumulateOverwrites(allItems, items) == items

\* allItems = append(allItems, response.Items...)
Accumulate(allItems, items) == allItems \o items

\* A bug that also stops when the server repeats the pending token.
LastPageOrRepeatedToken(next, pending) == next = "" \/ next = pending

\* The loop breaks exactly when the response's next_page_token is empty;
\* the pending token plays no part.
LastPage(next, pending) == next = ""

\* A bug: the items of the earlier pages are returned along with the error.
ReturnErrorWithItems(allItems, err) == [items |-> allItems, err |-> err]

\* return nil, err: the error of the Get and no items, whatever was read.
ReturnError(allItems, err) == [items |-> Null, err |-> err]

\* One iteration of the loop: build the URL, Get it, and either return the
\* error, or append the items and return (empty token) or go on.
GetAllPagesIteration(a) ==
    LET url == BuildURL(pg.endpoint, QueryParams(pg.params, pg.nextPageToken))
        sent == url.requestable
        r == IF sent THEN Get(a, TRUE) ELSE [err |-> [kind |-> "request"], result |-> Null]
        gets == IF sent THEN Append(pg.gets, [path |-> url.path, query |-> url.query])
                ELSE pg.gets
        answers == IF sent THEN Append(pg.answers, a) ELSE pg.answers
    IN IF r.err # NoError
       THEN pg' = [pg EXCEPT !.pc = "done", !.gets = gets, !.answers = answers,
                             !.ret = ReturnError(pg.allItems, r.err)]
       ELSE LET all == Accumulate(pg.allItems, r.result.items)
            IN IF LastPage(r.result.next_page_token, pg.nextPageToken)
               THEN pg' = [pg EXCEPT !.pc = "done", !.gets = gets, !.answers = answers,
                                     !.allItems = all,
                                     !.ret = [items |-> all, err |-> NoError]]
               ELSE pg' = [pg EXCEPT !.gets = gets, !.answers = answers,
                                     !.allItems = all,
                                     !.nextPageToken = r.result.next_page_token]

GetAllPagesPage ==
    /\ pg.pc = "loop"
    /\ Len(pg.gets) < MaxPages
    /\ \E a \in PageAnswers : GetAllPagesIteration(a)
    /\ UNCHANGED <<creq, cret, imp, kind, tfstate, last, client>>

GetAllPagesFailedPage ==
    /\ pg.pc = "loop"
    /\ Len(pg.gets) < MaxPages
    /\ \E a \in FailedPageAnswers : GetAllPagesIteration(a)
    /\ UNCHANGED <<creq, cret, imp, kind, tfstate, last, client>>

PagesNext == GetAllPagesCall \/ GetAllPagesPage \/ GetAllPagesFailedPage

SpecPages == PagesInit /\ [][PagesNext]_vars

\* The page answered without failure: status below 400 and a decodable body.
PageOK(a) == a.transport /\ a.status < 400 /\ a.body.valid /\ a.body.typed

\* The items of the answers, in the order the answers came.
RECURSIVE ItemsOfAnswers(_)
ItemsOfAnswers(as) ==
    IF as = <<>> THEN <<>> ELSE as[1].body.items \o ItemsOfAnswers(Tail(as))

GetAllPagesReturned == pg.pc = "done"
GetAllPagesReturnedItems == pg.pc = "done" /\ pg.ret.err = NoError

\* C5: when the page responses end with an empty next_page_token,
\* GetAllPages returns exactly the concatenation of the items of every page,
\* in page order and then in the order within the page, nothing dropped,
\* reordered or deduplicated.
C5_AllItemsInServerOrder ==
    GetAllPagesReturnedItems => pg.ret.items = ItemsOfAnswers(pg.answers)

\* C5 witness: three pages, the item 1 repeated across pages, were returned.
C5_Witness ==
    /\ GetAllPagesReturnedItems
    /\ Len(pg.answers) = 3
    /\ pg.ret.items = <<1, 2, 1, 1>>

\* C6: every GET but the last was answered by a page with a non-empty token;
\* the call has returned exactly when the last answer failed or carried an
\* empty token, so it goes on after any number of pages and after a repeated
\* token; three pages with tokens "a", "b", "" are exactly three GETs.
C6_ReturnsExactlyOnEmptyTokenOrFailure ==
    pg.pc \in {"loop", "done"} =>
        /\ Len(pg.gets) = Len(pg.answers)
        /\ \A i \in 1..(Len(pg.answers) - 1) :
              PageOK(pg.answers[i]) /\ pg.answers[i].body.next_page_token # ""
        /\ (pg.endpoint.requestable /\ pg.answers # <<>>) =>
              LET z == pg.answers[Len(pg.answers)]
              IN GetAllPagesReturned <=> (~PageOK(z) \/ z.body.next_page_token = "")
        /\ (pg.endpoint.requestable /\ pg.answers = <<>>) => ~GetAllPagesReturned

\* C6 witness: tokens "a", "b", "" were answered and the call returned after
\* the third GET.
C6_Witness ==
    /\ GetAllPagesReturnedItems
    /\ Len(pg.gets) = 3
    /\ pg.answers[1].body.next_page_token = "a"
    /\ pg.answers[2].body.next_page_token = "b"
    /\ pg.answers[3].body.next_page_token = ""

\* C6 witness of the missing cap: the server repeated the token "a" on every
\* page and the call is still in its loop.
C6_WitnessRepeatedToken ==
    /\ pg.pc = "loop"
    /\ Len(pg.answers) = MaxPages
    /\ \A i \in 1..Len(pg.answers) : pg.answers[i].body.next_page_token = "a"

\* The keys the caller supplied, in its params.
CallerKeys == DOMAIN pg.paramsAtCall

C26_FailedPageReturnsErrorOnly ==
    pg.pc \in {"loop", "done"} =>
        \A i \in DOMAIN pg.answers :
            ~PageOK(pg.answers[i]) =>
                /\ i = Len(pg.answers)
                /\ Len(pg.gets) = i
                /\ GetAllPagesReturned
                /\ pg.ret.items = Null
                /\ pg.ret.err # NoError
                /\ pg.ret.err = Get(pg.answers[i], TRUE).err

\* The third page failed after two pages with items.
C26_Witness ==
    /\ GetAllPagesReturned
    /\ Len(pg.answers) = 3
    /\ ~PageOK(pg.answers[3])
    /\ pg.answers[1].body.items # <<>>
    /\ pg.allItems # <<>>
    /\ pg.ret.items = Null

\* ------------------------------------------------------------------------
\* Diagnostics
\* ------------------------------------------------------------------------

NoDiags == <<>>
AddError(diags, summary) == Append(diags, [severity |-> "error", summary |-> summary])
AddWarning(diags, summary) == Append(diags, [severity |-> "warning", summary |-> summary])
HasError(diags) == \E i \in 1..Len(diags) : diags[i].severity = "error"
HasWarning(diags) == \E i \in 1..Len(diags) : diags[i].severity = "warning"

\* ------------------------------------------------------------------------
\* Provider Configure
\* ------------------------------------------------------------------------

\* An attribute of the provider configuration (types.String): null, unknown,
\* or known with a text.
NullAttr == [state |-> "null", v |-> ""]
UnknownAttr == [state |-> "unknown", v |-> ""]
Known(text) == [state |-> "known", v |-> text]

AttrIsNull(attr) == attr.state = "null"
\* ValueString(): the text of a known value, "" otherwise.
AttrValueString(attr) == IF attr.state = "known" THEN attr.v ELSE ""

DefaultBaseURL == "https://circleci.com/api/v2"

ApiTokenAttrs == {NullAttr, UnknownAttr, Known(""), Known("cfg-token"), Known("other-token")}
BaseURLAttrs == {NullAttr, UnknownAttr, Known(""), Known("https://ci.example/api/v2"),
                 Known(DefaultBaseURL)}
\* os.Getenv("CIRCLECI_TOKEN"): "" when the variable is not set.
EnvTokens == {"", "env-token", "cfg-token"}

\* A bug: the environment variable wins over the configuration.
ResolveTokenEnvFirst(api_token, env) ==
    IF env # "" THEN env ELSE AttrValueString(api_token)

ResolveToken(api_token, env) ==
    IF AttrIsNull(api_token) THEN env ELSE AttrValueString(api_token)

ResolveBaseURL(base_url) ==
    IF AttrIsNull(base_url) THEN DefaultBaseURL ELSE AttrValueString(base_url)

\* Provider Configure: resolve token and base URL; without a token an error
\* and no provider data, otherwise one client for resources and data sources.
ProviderConfigure(config, env) ==
    LET apiToken == ResolveToken(config.api_token, env)
        baseURL == ResolveBaseURL(config.base_url)
    IN IF apiToken = ""
       THEN [Diagnostics |-> AddError(NoDiags, "Unable to find API token"),
             ResourceData |-> Null, DataSourceData |-> Null]
       ELSE LET c == [ApiToken |-> apiToken, BaseURL |-> baseURL]
            IN [Diagnostics |-> NoDiags, ResourceData |-> c, DataSourceData |-> c]

\* The clients a resource may have been handed: from the environment
\* variable alone, or from the configuration with another base URL.
ConfiguredClients ==
    {ProviderConfigure(config, "env-token").ResourceData :
        config \in {[api_token |-> NullAttr, base_url |-> NullAttr],
                    [api_token |-> Known("cfg-token"),
                     base_url |-> Known("https://ci.example/api/v2")]}}

\* Configure of a resource or data source: without provider data nothing
\* happens, otherwise the client is attached.
AttachClient(providerData) == providerData

ConfigureInit ==
    /\ creq = Idle
    /\ cret = Idle
    /\ pg = Idle
    /\ imp = Idle
    /\ kind = "provider"
    /\ tfstate = Null
    /\ last = [op |-> "none"]
    /\ client = Null

\* The host configures the provider.
Configure ==
    /\ last.op = "none"
    /\ \E api_token \in ApiTokenAttrs, base_url \in BaseURLAttrs, env \in EnvTokens :
        LET config == [api_token |-> api_token, base_url |-> base_url]
        IN last' = [op |-> "Configure", config |-> config, env |-> env,
                    resp |-> ProviderConfigure(config, env),
                    resourceClient |-> Null, dataSourceClient |-> Null]
    /\ UNCHANGED <<creq, cret, pg, imp, kind, tfstate, client>>

\* The host configures a resource with the provider's resource data.
ResourceConfigure ==
    /\ last.op \in {"Configure", "DataSourceConfigure"}
    /\ last.resourceClient = Null
    /\ last' = [last EXCEPT !.op = "ResourceConfigure",
                            !.resourceClient = AttachClient(last.resp.ResourceData)]
    /\ UNCHANGED <<creq, cret, pg, imp, kind, tfstate, client>>

\* The host configures a data source with the provider's data source data.
DataSourceConfigure ==
    /\ last.op \in {"Configure", "ResourceConfigure"}
    /\ last.dataSourceClient = Null
    /\ last' = [last EXCEPT !.op = "DataSourceConfigure",
                            !.dataSourceClient = AttachClient(last.resp.DataSourceData)]
    /\ UNCHANGED <<creq, cret, pg, imp, kind, tfstate, client>>

ConfigureNext == Configure \/ ResourceConfigure \/ DataSourceConfigure

SpecConfigure == ConfigureInit /\ [][ConfigureNext]_vars

Configured == last.op # "none"

\* C20: the token is api_token when the configuration sets it and the
\* environment variable otherwise, the base URL is base_url when set and the
\* public endpoint otherwise; a client with these two is handed to resources
\* and data sources exactly when the token is not empty, and otherwise there
\* is an error and no client.
C20_ConfigureResolves ==
    Configured =>
        LET token == IF last.config.api_token.state = "null" THEN last.env
                     ELSE IF last.config.api_token.state = "known"
                          THEN last.config.api_token.v ELSE ""
            url == IF last.config.base_url.state = "null" THEN DefaultBaseURL
                   ELSE IF last.config.base_url.state = "known"
                        THEN last.config.base_url.v ELSE ""
        IN IF token # ""
           THEN /\ ~HasError(last.resp.Diagnostics)
                /\ last.resp.ResourceData = [ApiToken |-> token, BaseURL |-> url]
                /\ last.resp.DataSourceData = last.resp.ResourceData
                /\ last.resourceClient \in {Null, last.resp.ResourceData}
                /\ last.dataSourceClient \in {Null, last.resp.DataSourceData}
           ELSE /\ HasError(last.resp.Diagnostics)
                /\ last.resp.ResourceData = Null
                /\ last.resp.DataSourceData = Null
                /\ last.resourceClient = Null
                /\ last.dataSourceClient = Null

\* C20 witness: api_token is set and the environment holds another token; the
\* resource got a client with the configured token and the default base URL.
C20_Witness ==
    /\ Configured
    /\ last.config.api_token = Known("cfg-token")
    /\ last.env = "env-token"
    /\ last.config.base_url = NullAttr
    /\ last.resourceClient = [ApiToken |-> "cfg-token", BaseURL |-> DefaultBaseURL]

\* C20 witness of the refusal: no api_token and no environment variable.
C20_WitnessNoToken ==
    /\ Configured
    /\ last.config.api_token = NullAttr
    /\ last.env = ""
    /\ HasError(last.resp.Diagnostics)
    /\ last.op = "ResourceConfigure"
    /\ last.resourceClient = Null

\* ------------------------------------------------------------------------
\* ImportState
\* ------------------------------------------------------------------------

\* An import identifier is the list of its colon-free segments: <<"a", "b">>
\* is the string "a:b".  A part of it is again such a list.
MaxSegments == 3

Segments == {"gh", "7", ""}

RECURSIVE SeqsUpTo(_, _)
SeqsUpTo(S, n) ==
    IF n = 0 THEN {<<>>}
    ELSE LET shorter == SeqsUpTo(S, n - 1)
         IN shorter \cup {Append(q, x) : q \in {r \in shorter : Len(r) = n - 1}, x \in S}

ImportIDs == SeqsUpTo(Segments, MaxSegments) \ {<<>>}

\* A bug: strings.Split, which cuts at every colon.
SplitAtEveryColon(id) == [i \in 1..Len(id) |-> <<id[i]>>]

\* strings.SplitN(id, ":", 2): one part when there is no colon, otherwise the
\* text before the first colon and all the text after it.
SplitN2(id) == IF Len(id) = 1 THEN <<id>> ELSE <<<<id[1]>>, Tail(id)>>

\* strconv.ParseInt(s, 10, 64): s must be one run of digits.
ParseIntOK(part) == Len(part) = 1 /\ part[1] = "7"
ParseInt(part) == IF part = <<"7">> THEN 7 ELSE 0

NoAttrs == <<>>

ImportRejected(summary) == [diags |-> AddError(NoDiags, summary), attrs |-> NoAttrs]
ImportAccepted(attrs) == [diags |-> NoDiags, attrs |-> attrs]

\* EnvironmentVariable: context_id:variable_name, and id is the whole string.
ImportEnvironmentVariable(id) ==
    LET parts == SplitN2(id)
    IN IF Len(parts) # 2 THEN ImportRejected("Unexpected Import Identifier")
       ELSE ImportAccepted(("context_id" :> parts[1]) @@ ("name" :> parts[2]) @@ ("id" :> id))

\* CheckoutKey: project_slug:fingerprint, and id is the whole string.
ImportCheckoutKey(id) ==
    LET parts == SplitN2(id)
    IN IF Len(parts) # 2 THEN ImportRejected("Unexpected Import Identifier")
       ELSE ImportAccepted(("project_slug" :> parts[1]) @@ ("fingerprint" :> parts[2])
                           @@ ("id" :> id))

\* Schedule: project_slug:schedule_id.
ImportSchedule(id) ==
    LET parts == SplitN2(id)
    IN IF Len(parts) # 2 THEN ImportRejected("Unexpected Import Identifier")
       ELSE ImportAccepted(("project_slug" :> parts[1]) @@ ("id" :> parts[2]))

\* OIDCToken, Policy, User, UsageExport: org_id:<resource id>.
ImportOrgScoped(id) ==
    LET parts == SplitN2(id)
    IN IF Len(parts) # 2 THEN ImportRejected("Invalid import ID")
       ELSE ImportAccepted(("org_id" :> parts[1]) @@ ("id" :> parts[2]))

ImportOIDCToken(id) == ImportOrgScoped(id)
ImportPolicy(id) == ImportOrgScoped(id)
ImportUser(id) == ImportOrgScoped(id)
ImportUsageExport(id) == ImportOrgScoped(id)

\* Job: project_slug:job_number, the number parsed as an integer, and id is
\* the whole string.
ImportJob(id) ==
    LET parts == SplitN2(id)
    IN IF Len(parts) # 2 THEN ImportRejected("Invalid import ID")
       ELSE IF ~ParseIntOK(parts[2]) THEN ImportRejected("Invalid job number")
       ELSE ImportAccepted(("project_slug" :> parts[1]) @@ ("job_number" :> ParseInt(parts[2]))
                           @@ ("id" :> id))

\* Context, Pipeline, Webhook, Runner, RunnerToken: the string is the id.
ImportPassthroughID(id) == ImportAccepted("id" :> id)

\* Project: the string is the slug.
ImportProject(id) == ImportAccepted("slug" :> id)

CompositeKinds ==
    {"EnvironmentVariable", "CheckoutKey", "Schedule", "OIDCToken", "Policy", "User",
     "UsageExport", "Job"}
PassthroughKinds == {"Context", "Pipeline", "Webhook", "Runner", "RunnerToken"}
Kinds == CompositeKinds \cup PassthroughKinds \cup {"Project"}

ImportStateOf(k, id) ==
    CASE k = "EnvironmentVariable" -> ImportEnvironmentVariable(id)
      [] k = "CheckoutKey" -> ImportCheckoutKey(id)
      [] k = "Schedule" -> ImportSchedule(id)
      [] k = "OIDCToken" -> ImportOIDCToken(id)
      [] k = "Policy" -> ImportPolicy(id)
      [] k = "User" -> ImportUser(id)
      [] k = "UsageExport" -> ImportUsageExport(id)
      [] k = "Job" -> ImportJob(id)
      [] k = "Project" -> ImportProject(id)
      [] OTHER -> ImportPassthroughID(id)

ImportInit ==
    /\ creq = Idle
    /\ cret = Idle
    /\ pg = Idle
    /\ imp = Idle
    /\ kind = "none"
    /\ tfstate = Null
    /\ last = Idle
    /\ client = Null

ImportComposite ==
    \E k \in CompositeKinds, id \in ImportIDs :
        /\ imp' = [fn |-> "ImportState", kind |-> k, id |-> id, resp |-> ImportStateOf(k, id)]
        /\ UNCHANGED <<creq, cret, pg, kind, tfstate, last, client>>

ImportPassthrough ==
    \E k \in Kinds \ CompositeKinds, id \in ImportIDs :
        /\ imp' = [fn |-> "ImportState", kind |-> k, id |-> id, resp |-> ImportStateOf(k, id)]
        /\ UNCHANGED <<creq, cret, pg, kind, tfstate, last, client>>

\* The longest text, in segments, of one half of a composite identifier.
MaxPartSegments == 2

\* The values Create may get for one half: context id, variable name,
\* project slug, or a fingerprint such as aa:bb:cc, which holds colons.
Parts == SeqsUpTo(Segments, MaxPartSegments) \ {<<>>}

\* A bug: the two halves the other way round.
FormatCompositeIDSwapped(first, second) == second \o first

\* fmt.Sprintf("%s:%s", first, second), the id Create stores: the segments
\* of first, a colon, the segments of second.
FormatCompositeID(first, second) == first \o second

\* The host imports an EnvironmentVariable or a CheckoutKey under the id its
\* Create stored for the pair (first, second).
ImportCreated ==
    \E k \in {"EnvironmentVariable", "CheckoutKey"}, first \in Parts, second \in Parts :
        LET id == FormatCompositeID(first, second)
        IN /\ imp' = [fn |-> "ImportCreated", kind |-> k, first |-> first, second |-> second,
                      id |-> id, resp |-> ImportStateOf(k, id)]
           /\ UNCHANGED <<creq, cret, pg, kind, tfstate, last, client>>

ImportNext == ImportComposite \/ ImportPassthrough \/ ImportCreated

SpecImport == ImportInit /\ [][ImportNext]_vars

\* The two attributes a composite identifier stands for, in order.
CompositeAttrs(k) ==
    CASE k = "EnvironmentVariable" -> <<"context_id", "name">>
      [] k = "CheckoutKey" -> <<"project_slug", "fingerprint">>
      [] k = "Schedule" -> <<"project_slug", "id">>
      [] k = "Job" -> <<"project_slug", "job_number">>
      [] OTHER -> <<"org_id", "id">>

\* The kinds whose import also stores the whole string as id.
StoresWholeID == {"EnvironmentVariable", "CheckoutKey", "Job"}

ImportedComposite == imp # Idle /\ imp.kind \in CompositeKinds

\* C8 (as claimed): exactly two segments are accepted and populate exactly
\* the two attributes; one segment, or three or more, are rejected with an
\* error and set no attribute.
C8_ExactlyTwoSegments ==
    ImportedComposite =>
        IF Len(imp.id) = 2
        THEN /\ ~HasError(imp.resp.diags)
             /\ DOMAIN imp.resp.attrs = {CompositeAttrs(imp.kind)[1], CompositeAttrs(imp.kind)[2]}
        ELSE /\ HasError(imp.resp.diags)
             /\ imp.resp.attrs = NoAttrs

\* The value stored for the second attribute: the text after the first
\* colon, for Job as an integer.
SecondValueStored(k, rest) == IF k = "Job" THEN ParseInt(rest) ELSE rest

\* C8 (amended): an identifier without a colon is rejected with an error and
\* sets no attribute; one with a colon is cut at its first colon only: the
\* text before populates the first attribute and all the text after it the
\* second, whatever the number of further colons (EnvironmentVariable,
\* CheckoutKey and Job also store the whole string as id); Job alone rejects
\* the identifier when the text after the first colon is not an integer.
C8_SplitAtFirstColon ==
    ImportedComposite =>
        LET a == CompositeAttrs(imp.kind)
            rest == Tail(imp.id)
            rejected == HasError(imp.resp.diags) /\ imp.resp.attrs = NoAttrs
        IN IF Len(imp.id) = 1 \/ (imp.kind = "Job" /\ ~ParseIntOK(rest))
           THEN rejected
           ELSE /\ imp.resp.diags = NoDiags
                /\ DOMAIN imp.resp.attrs =
                      {a[1], a[2]} \cup (IF imp.kind \in StoresWholeID THEN {"id"} ELSE {})
                /\ imp.resp.attrs[a[1]] = <<imp.id[1]>>
                /\ imp.resp.attrs[a[2]] = SecondValueStored(imp.kind, rest)
                /\ imp.kind \in StoresWholeID => imp.resp.attrs["id"] = imp.id

\* C8 witness: a CheckoutKey identifier of three segments was accepted, its
\* fingerprint being the last two.
C8_Witness ==
    /\ imp # Idle
    /\ imp.kind = "CheckoutKey"
    /\ imp.id = <<"gh", "7", "7">>
    /\ ~HasError(imp.resp.diags)
    /\ imp.resp.attrs["fingerprint"] = <<"7", "7">>

\* ------------------------------------------------------------------------
\* C25: for CheckoutKey and EnvironmentVariable, importing the id Create
\* stored, "<first>:<second>", gives back exactly the pair Create was given,
\* whenever first holds no colon, whatever second is (colons included, as
\* in a fingerprint aa:bb:cc): the split is at the first colon only, and the
\* id attribute is the whole import string.
\* ------------------------------------------------------------------------
C25_ImportRecoversCreatedPair ==
    (imp.fn = "ImportCreated" /\ Len(imp.first) = 1) =>
        /\ ~HasError(imp.resp.diags)
        /\ imp.resp.attrs[CompositeAttrs(imp.kind)[1]] = imp.first
        /\ imp.resp.attrs[CompositeAttrs(imp.kind)[2]] = imp.second
        /\ imp.resp.attrs["id"] = imp.id

\* A checkout key whose fingerprint holds a colon was imported.
C25_Witness ==
    /\ imp.fn = "ImportCreated"
    /\ imp.kind = "CheckoutKey"
    /\ Len(imp.first) = 1
    /\ Len(imp.second) > 1
    /\ imp.resp.attrs["fingerprint"] = imp.second

\* ------------------------------------------------------------------------
\* Resources: plans, tracked state and the server's answers
\* ------------------------------------------------------------------------

\* A null string attribute; ValueString() of it is "".
NullStr == "<null>"
IsNull(x) == x = NullStr
ValueString(x) == IF x = NullStr THEN "" ELSE x

\* The plans the host may hand to Create and Update, by resource type: the
\* attributes the handlers look at.
Plans(k) ==
    CASE k = "Pipeline" -> [branch : {NullStr, "main"}, tag : {NullStr, "v1"}]
      [] k = "EnvironmentVariable" -> [name : {"VAR"}, value : {"s1", "s2"}]
      [] k = "Job" -> {p \in [action : {NullStr, "cancel", "approve", "rerun", "retry"},
                              approval_id : {NullStr, "ap1"}] :
                         p.approval_id = NullStr \/ p.action \in {NullStr, "approve"}}
      [] OTHER -> [name : {"n1", "n2"}]

\* The JSON object of a successful answer: the fields the handlers decode.
\* name stands for the configurable attributes the API echoes, value for the
\* secret it may echo (masked or in full), state for the computed ones.
\* A JSON object without an id field decodes with the id "".
Payloads ==
    {[id |-> "id1", name |-> "n1", value |-> "", state |-> "created", approval |-> ""],
     [id |-> "id1", name |-> "n2", value |-> "xxxx", state |-> "running", approval |-> "ap2"],
     [id |-> "", name |-> "n1", value |-> "tok", state |-> "created", approval |-> ""]}

PayloadBody(p) ==
    [raw |-> "{object}", valid |-> TRUE, typed |-> TRUE, fields |-> {"id"},
     message |-> "", code |-> 0, payload |-> p]

\* What the server may answer to a request of a resource handler.
ResourceAnswers ==
    {TransportFailure}
    \cup [transport : {TRUE}, status : {200, 201},
          body : {PayloadBody(p) : p \in Payloads} \cup {BodyEmpty}]
    \cup [transport : {TRUE}, status : {204}, body : {BodyEmpty}]
    \cup [transport : {TRUE}, status : {404, 500}, body : {BodyMsgOnly}]

\* The headers MakeRequest sets on every request it builds.
MakeRequestHeaders(c) ==
    ("Circle-Token" :> c.ApiToken) @@ ("Content-Type" :> "application/json")
    @@ ("Accept" :> "application/json") @@ ("User-Agent" :> "terraform-provider-circleci")

\* A bug: a request built by the handler itself goes out without the token.
DirectHeadersNoToken(c, method) ==
    IF method = "DELETE" THEN <<>> ELSE "Accept" :> "application/json"

\* The headers of a request a handler builds itself for HTTPClient.Do: the
\* token always, Accept except on DELETE, Content-Type with a body.
DirectHeaders(c, method) ==
    ("Circle-Token" :> c.ApiToken)
    @@ (IF method = "DELETE" THEN <<>> ELSE "Accept" :> "application/json")
    @@ (IF method \in {"POST", "PATCH"} THEN "Content-Type" :> "application/json" ELSE <<>>)

\* The resources and data sources that build their requests themselves.
BuildsOwnRequest == {"Runner", "RunnerToken", "JobsData", "TestsData", "ArtifactsData"}

\* An HTTP request a handler issued, with the answer it got.
Call(method, target, answer) ==
    [method |-> method, target |-> target, answer |-> answer,
     headers |-> IF kind \in BuildsOwnRequest THEN DirectHeaders(client, method)
                 ELSE MakeRequestHeaders(client)]

\* The outcome of a handler: the response handed back to the host and the
\* HTTP requests issued on the way.
Outcome(state, diags, calls) == [State |-> state, Diagnostics |-> diags, calls |-> calls]

\* The kinds whose Read and Update map the id from the response.
MapsID == {"Project", "Job", "Policy", "User", "UsageExport", "Runner", "RunnerToken"}

\* A bug: Read copies the value the API returned into the tracked value.
RefreshCfgCopiesValue(k, cfg, p) ==
    CASE k = "EnvironmentVariable" -> [cfg EXCEPT !.name = p.name, !.value = p.value]
      [] OTHER -> cfg

\* A bug: mapJobToModel leaves the approval_id of the plan or state alone.
RefreshCfgKeepsApproval(k, cfg, p) ==
    CASE k = "EnvironmentVariable" -> [cfg EXCEPT !.name = p.name]
      [] k \in {"Pipeline", "Job"} -> cfg
      [] OTHER -> [cfg EXCEPT !.name = p.name]

\* The configurable attributes after a refresh from the object p the API
\* returned.  EnvironmentVariable takes the name and keeps the value;
\* Pipeline keeps branch and tag; Job keeps action and takes approval_id
\* from approval_request_id (null when empty).
RefreshCfg(k, cfg, p) ==
    CASE k = "EnvironmentVariable" -> [cfg EXCEPT !.name = p.name]
      [] k = "Pipeline" -> cfg
      [] k = "Job" -> [cfg EXCEPT !.approval_id =
                          IF p.approval # "" THEN p.approval ELSE NullStr]
      [] OTHER -> [cfg EXCEPT !.name = p.name]

\* A bug: Read clears the token, which the read API does not return.
RefreshSecretCleared(prior, p) == NullStr

\* The token after a refresh: as stored in state, whatever the answer holds.
RefreshSecret(prior, p) == prior.secret

\* A bug: Read takes the computed attributes from the state it was given.
RefreshedKeepsComputed(k, prior, p) ==
    [id |-> IF k \in MapsID THEN p.id ELSE prior.id,
     cfg |-> RefreshCfg(k, prior.cfg, p),
     computed |-> prior.computed,
     secret |-> RefreshSecret(prior, p)]

\* The tracked state after Read (or a mapping Update) refreshed it from p.
Refreshed(k, prior, p) ==
    [id |-> IF k \in MapsID THEN p.id ELSE prior.id,
     cfg |-> RefreshCfg(k, prior.cfg, p),
     computed |-> IF k \in {"Context", "EnvironmentVariable"} THEN prior.computed ELSE p.state,
     secret |-> RefreshSecret(prior, p)]

\* Read through client.Get (Context, EnvironmentVariable, Project,
\* CheckoutKey, Webhook, Schedule, Pipeline, OIDCToken): any error of the
\* client is an error diagnostic; the state stays as it was.
ReadViaGet(k, prior, a) ==
    LET r == Get(a, TRUE)
        calls == <<Call("GET", "object", a)>>
    IN IF r.err # NoError
       THEN Outcome(prior, AddError(NoDiags, "Client Error"), calls)
       ELSE Outcome(Refreshed(k, prior, r.result.payload), NoDiags, calls)

\* Read through client.MakeRequest (Job, Policy, User, UsageExport): the
\* response is looked at only when MakeRequest returned no error.
ReadViaMakeRequest(k, prior, a) ==
    LET r == MakeRequest("GET", a)
        calls == <<Call("GET", "object", a)>>
    IN IF r.err # NoError
       THEN Outcome(prior, AddError(NoDiags, "Failed to get"), calls)
       ELSE IF r.resp.StatusCode = 404
       THEN Outcome(Null, NoDiags, calls)
       ELSE IF r.resp.StatusCode # 200
       THEN Outcome(prior, AddError(NoDiags, "Failed to get"), calls)
       ELSE IF DecodeFails(r.resp.Body)
       THEN Outcome(prior, AddError(NoDiags, "Failed to decode response"), calls)
       ELSE Outcome(Refreshed(k, prior, r.resp.Body.payload), NoDiags, calls)

\* Read through HTTPClient.Do (Runner, RunnerToken): the status is looked at
\* whatever it is; 404 removes the resource from state.
ReadViaDo(k, prior, a) ==
    LET calls == <<Call("GET", "object", a)>>
    IN IF ~a.transport
       THEN Outcome(prior, AddError(NoDiags, "Error reading"), calls)
       ELSE IF a.status = 404
       THEN Outcome(Null, NoDiags, calls)
       ELSE IF a.status # 200
       THEN Outcome(prior, AddError(NoDiags, "Error reading"), calls)
       ELSE IF DecodeFails(a.body)
       THEN Outcome(prior, AddError(NoDiags, "Error parsing response"), calls)
       ELSE Outcome(Refreshed(k, prior, a.body.payload), NoDiags, calls)

ViaMakeRequest == {"Job", "Policy", "User", "UsageExport"}
ViaDo == {"Runner", "RunnerToken"}

ReadOf(k, prior, a) ==
    CASE k \in ViaMakeRequest -> ReadViaMakeRequest(k, prior, a)
      [] k \in ViaDo -> ReadViaDo(k, prior, a)
      [] OTHER -> ReadViaGet(k, prior, a)

\* The tracked state Create saves from the plan and the object p returned.
\* EnvironmentVariable and CheckoutKey build a composite id from the plan;
\* the runner kinds and the kinds that map the whole object take the
\* configurable attributes from the response; RunnerToken stores the token.
Created(k, plan, p) ==
    [id |-> CASE k = "EnvironmentVariable" -> <<"ctx", plan.name>>
              [] k = "CheckoutKey" -> <<"slug", p.id>>
              [] OTHER -> p.id,
     cfg |-> IF k \in MapsID THEN RefreshCfg(k, plan, p) ELSE plan,
     computed |-> IF k \in {"Context", "EnvironmentVariable"} THEN "" ELSE p.state,
     secret |-> IF k = "RunnerToken" THEN p.value ELSE ""]

\* Create through client.Post, or client.Put for EnvironmentVariable
\* (Context, EnvironmentVariable, CheckoutKey, Webhook, Schedule, OIDCToken).
CreateViaClient(k, plan, a) ==
    LET m == IF k = "EnvironmentVariable" THEN "PUT" ELSE "POST"
        r == Wrapper(m, a, TRUE)
        calls == <<Call(m, "object", a)>>
    IN IF r.err # NoError
       THEN Outcome(Null, AddError(NoDiags, "Client Error"), calls)
       ELSE Outcome(Created(k, plan, r.result.payload), NoDiags, calls)

\* A bug: Pipeline Create without the check of branch and tag.
PipelineValidationSkipped(plan) == "ok"

\* Pipeline Create's check of the plan, before anything else.
PipelineValidation(plan) ==
    IF IsNull(plan.branch) /\ IsNull(plan.tag) THEN "Missing Required Attribute"
    ELSE IF ~IsNull(plan.branch) /\ ~IsNull(plan.tag) THEN "Conflicting Attributes"
    ELSE "ok"

\* Pipeline Create: validate, then trigger the pipeline with one POST.
PipelineCreate(plan, a) ==
    LET v == PipelineValidation(plan)
    IN IF v # "ok"
       THEN Outcome(Null, AddError(NoDiags, v), <<>>)
       ELSE CreateViaClient("Pipeline", plan, a)

\* A bug: once the project is followed, Create saves the plan even though
\* the project could not be read.
ProjectCreateSavesUnread(plan, a1, a2) ==
    LET f == Post(a1, FALSE)
        follow == Call("POST", "follow", a1)
    IN IF f.err # NoError
       THEN Outcome(Null, AddError(NoDiags, "Client Error"), <<follow>>)
       ELSE LET r == Get(a2, TRUE)
                calls == <<follow, Call("GET", "object", a2)>>
            IN IF r.err # NoError
               THEN Outcome([id |-> "", cfg |-> plan, computed |-> "", secret |-> ""],
                            AddError(NoDiags, "Client Error"), calls)
               ELSE Outcome(Created("Project", plan, r.result.payload), NoDiags, calls)

\* Project Create: POST follow without a result, then readProject's GET.
ProjectCreate(plan, a1, a2) ==
    LET f == Post(a1, FALSE)
        follow == Call("POST", "follow", a1)
    IN IF f.err # NoError
       THEN Outcome(Null, AddError(NoDiags, "Client Error"), <<follow>>)
       ELSE LET r == Get(a2, TRUE)
                calls == <<follow, Call("GET", "object", a2)>>
            IN IF r.err # NoError
               THEN Outcome(Null, AddError(NoDiags, "Client Error"), calls)
               ELSE Outcome(Created("Project", plan, r.result.payload), NoDiags, calls)

\* The statuses Create accepts, for the kinds that test the status.
CreateStatuses(k) == IF k = "User" THEN {201, 200} ELSE {201}

\* Create through client.MakeRequest (Policy, User, UsageExport).
CreateViaMakeRequest(k, plan, a) ==
    LET r == MakeRequest("POST", a)
        calls == <<Call("POST", "object", a)>>
    IN IF r.err # NoError
       THEN Outcome(Null, AddError(NoDiags, "Failed to create"), calls)
       ELSE IF r.resp.StatusCode \notin CreateStatuses(k)
       THEN Outcome(Null, AddError(NoDiags, "Failed to create"), calls)
       ELSE IF DecodeFails(r.resp.Body)
       THEN Outcome(Null, AddError(NoDiags, "Failed to decode response"), calls)
       ELSE Outcome(Created(k, plan, r.resp.Body.payload), NoDiags, calls)

\* Create through HTTPClient.Do (Runner, RunnerToken).
CreateViaDo(k, plan, a) ==
    LET calls == <<Call("POST", "object", a)>>
    IN IF ~a.transport
       THEN Outcome(Null, AddError(NoDiags, "Error creating"), calls)
       ELSE IF a.status # 201
       THEN Outcome(Null, AddError(NoDiags, "Error creating"), calls)
       ELSE IF DecodeFails(a.body)
       THEN Outcome(Null, AddError(NoDiags, "Error parsing response"), calls)
       ELSE Outcome(Created(k, plan, a.body.payload), NoDiags, calls)

\* performJobAction: cancel and rerun POST to the job, approve needs an
\* approval id and POSTs to the workflow, anything else is unsupported.
\* err is the error returned, calls the requests issued.
performJobAction(action, approvalID, a) ==
    LET post == LET r == MakeRequest("POST", a)
                IN [err |-> r.err # NoError \/ r.resp.StatusCode # 200,
                    calls |-> <<Call("POST", action, a)>>]
    IN CASE action \in {"cancel", "rerun"} -> post
         [] action = "approve" ->
                IF approvalID = "" THEN [err |-> TRUE, calls |-> <<>>] ELSE post
         [] OTHER -> [err |-> TRUE, calls |-> <<>>]

\* Job Create: GET the job, then perform the action if one is planned, then
\* save the job as the GET returned it.
JobCreate(plan, a1, a2) ==
    LET r == MakeRequest("GET", a1)
        get == <<Call("GET", "object", a1)>>
    IN IF r.err # NoError
       THEN Outcome(Null, AddError(NoDiags, "Failed to get job"), get)
       ELSE IF r.resp.StatusCode # 200
       THEN Outcome(Null, AddError(NoDiags, "Failed to get job"), get)
       ELSE IF DecodeFails(r.resp.Body)
       THEN Outcome(Null, AddError(NoDiags, "Failed to decode response"), get)
       ELSE LET action == ValueString(plan.action)
                act == IF action # ""
                       THEN performJobAction(action, ValueString(plan.approval_id), a2)
                       ELSE [err |-> FALSE, calls |-> <<>>]
            IN IF act.err
               THEN Outcome(Null, AddError(NoDiags, "Failed to perform job action"),
                            get \o act.calls)
               ELSE Outcome(Created("Job", plan, r.resp.Body.payload), NoDiags,
                            get \o act.calls)

CreateOf(k, plan, a1, a2) ==
    CASE k = "Pipeline" -> PipelineCreate(plan, a1)
      [] k = "Project" -> ProjectCreate(plan, a1, a2)
      [] k = "Job" -> JobCreate(plan, a1, a2)
      [] k \in {"Policy", "User", "UsageExport"} -> CreateViaMakeRequest(k, plan, a1)
      [] k \in ViaDo -> CreateViaDo(k, plan, a1)
      [] OTHER -> CreateViaClient(k, plan, a1)

\* A bug: the Update of an immutable resource returns without a diagnostic.
UpdateSilentlySkipped(prior) == Outcome(prior, NoDiags, <<>>)

\* Update of a wholly immutable resource (Context, CheckoutKey, Pipeline,
\* RunnerToken): an error and nothing else.
UpdateNotSupported(prior) ==
    Outcome(prior, AddError(NoDiags, "Update Not Supported"), <<>>)

\* Update through client.Put (EnvironmentVariable, Webhook, Schedule,
\* OIDCToken): the plan is saved, with updated_at from the response.
UpdateViaPut(k, plan, prior, a) ==
    LET r == Put(a, TRUE)
        calls == <<Call("PUT", "object", a)>>
    IN IF r.err # NoError
       THEN Outcome(prior, AddError(NoDiags, "Client Error"), calls)
       ELSE Outcome([id |-> prior.id, cfg |-> plan,
                     computed |-> IF k = "EnvironmentVariable" THEN prior.computed
                                  ELSE r.result.payload.state,
                     secret |-> prior.secret],
                    NoDiags, calls)

\* Project Update: a warning, and the plan is saved.
ProjectUpdate(plan, prior) ==
    Outcome([prior EXCEPT !.cfg = plan], AddWarning(NoDiags, "Project Update"), <<>>)

\* Policy Update: PUT through MakeRequest, status 200, and the whole object
\* mapped into the state.
PolicyUpdate(plan, prior, a) ==
    LET r == MakeRequest("PUT", a)
        calls == <<Call("PUT", "object", a)>>
    IN IF r.err # NoError
       THEN Outcome(prior, AddError(NoDiags, "Failed to update policy"), calls)
       ELSE IF r.resp.StatusCode # 200
       THEN Outcome(prior, AddError(NoDiags, "Failed to update policy"), calls)
       ELSE IF DecodeFails(r.resp.Body)
       THEN Outcome(prior, AddError(NoDiags, "Failed to decode response"), calls)
       ELSE Outcome(Refreshed("Policy", [prior EXCEPT !.cfg = plan], r.resp.Body.payload),
                    NoDiags, calls)

\* Runner Update: PATCH through HTTPClient.Do, status 200, and the whole
\* object mapped into the state.
RunnerUpdate(plan, prior, a) ==
    LET calls == <<Call("PATCH", "object", a)>>
    IN IF ~a.transport
       THEN Outcome(prior, AddError(NoDiags, "Error updating runner"), calls)
       ELSE IF a.status # 200
       THEN Outcome(prior, AddError(NoDiags, "Error updating runner"), calls)
       ELSE IF DecodeFails(a.body)
       THEN Outcome(prior, AddError(NoDiags, "Error parsing response"), calls)
       ELSE Outcome(Refreshed("Runner", [prior EXCEPT !.cfg = plan], a.body.payload),
                    NoDiags, calls)

\* r.Read(ctx, ReadRequest{State: req.State},
\*        &ReadResponse{State: resp.State, Diagnostics: resp.Diagnostics}):
\* Read works on a fresh ReadResponse that holds copies of the Update's state
\* and diagnostics; what it sets or appends stays in that copy, and the
\* Update's own response (state, diags) is as it was before the call.
NestedRead(k, prior, state, diags, calls, a) ==
    LET inner == ReadViaMakeRequest(k, prior, a)
    IN Outcome(state, diags, calls \o inner.calls)

\* User Update: PUT the role through MakeRequest, status 200, then Read.
UserUpdate(plan, prior, a1, a2) ==
    LET r == MakeRequest("PUT", a1)
        calls == <<Call("PUT", "role", a1)>>
    IN IF r.err # NoError
       THEN Outcome(prior, AddError(NoDiags, "Failed to update user role"), calls)
       ELSE IF r.resp.StatusCode # 200
       THEN Outcome(prior, AddError(NoDiags, "Failed to update user role"), calls)
       ELSE NestedRead("User", prior, prior, NoDiags, calls, a2)

\* UsageExport Update: Read and nothing else.
UsageExportUpdate(prior, a) == NestedRead("UsageExport", prior, prior, NoDiags, <<>>, a)

\* Job Update: perform the action if one is planned, then Read.
JobUpdate(plan, prior, a1, a2) ==
    LET action == ValueString(plan.action)
    IN IF action # ""
       THEN LET act == performJobAction(action, ValueString(plan.approval_id), a1)
            IN IF act.err
               THEN Outcome(prior, AddError(NoDiags, "Failed to perform job action"), act.calls)
               ELSE NestedRead("Job", prior, prior, NoDiags, act.calls, a2)
       ELSE NestedRead("Job", prior, prior, NoDiags, <<>>, a1)

UpdateOf(k, plan, prior, a1, a2) ==
    CASE k \in {"Context", "CheckoutKey", "Pipeline", "RunnerToken"} -> UpdateNotSupported(prior)
      [] k = "Project" -> ProjectUpdate(plan, prior)
      [] k = "Policy" -> PolicyUpdate(plan, prior, a1)
      [] k = "Runner" -> RunnerUpdate(plan, prior, a1)
      [] k = "User" -> UserUpdate(plan, prior, a1, a2)
      [] k = "UsageExport" -> UsageExportUpdate(prior, a1)
      [] k = "Job" -> JobUpdate(plan, prior, a1, a2)
      [] OTHER -> UpdateViaPut(k, plan, prior, a1)

\* Delete through client.Delete, or client.Post to unfollow a Project
\* (Context, EnvironmentVariable, Project, CheckoutKey, Webhook, Schedule,
\* OIDCToken).
DeleteViaClient(k, prior, a) ==
    LET m == IF k = "Project" THEN "POST" ELSE "DELETE"
        r == Wrapper(m, a, FALSE)
        calls == <<Call(m, IF k = "Project" THEN "unfollow" ELSE "object", a)>>
    IN IF r.err # NoError
       THEN Outcome(prior, AddError(NoDiags, "Client Error"), calls)
       ELSE Outcome(prior, NoDiags, calls)

\* A bug: Pipeline Delete cancels whatever the tracked state is.
PipelineDeleteAlwaysCancels(prior, a) ==
    LET r == Post(a, FALSE)
        calls == <<Call("POST", "cancel", a)>>
    IN IF r.err # NoError
       THEN Outcome(prior, AddWarning(NoDiags, "Pipeline Cancel Failed"), calls)
       ELSE Outcome(prior, NoDiags, calls)

\* Pipeline Delete: cancel the pipeline when the tracked state is "running";
\* a failed cancel is a warning.
PipelineDelete(prior, a) ==
    IF prior.computed = "running"
    THEN LET r == Post(a, FALSE)
             calls == <<Call("POST", "cancel", a)>>
         IN IF r.err # NoError
            THEN Outcome(prior, AddWarning(NoDiags, "Pipeline Cancel Failed"), calls)
            ELSE Outcome(prior, NoDiags, calls)
    ELSE Outcome(prior, NoDiags, <<>>)

\* Job Delete does nothing.
JobDelete(prior) == Outcome(prior, NoDiags, <<>>)

\* Delete through client.MakeRequest (Policy, User, UsageExport): status 200
\* or 204.
DeleteViaMakeRequest(k, prior, a) ==
    LET r == MakeRequest("DELETE", a)
        calls == <<Call("DELETE", "object", a)>>
    IN IF r.err # NoError
       THEN Outcome(prior, AddError(NoDiags, "Failed to delete"), calls)
       ELSE IF r.resp.StatusCode # 200 /\ r.resp.StatusCode # 204
       THEN Outcome(prior, AddError(NoDiags, "Failed to delete"), calls)
       ELSE Outcome(prior, NoDiags, calls)

\* A bug: 204 No Content is taken for a success as well.
DeleteViaDoAccepts204(k, prior, a) ==
    LET calls == <<Call("DELETE", "object", a)>>
    IN IF ~a.transport
       THEN Outcome(prior, AddError(NoDiags, "Error deleting"), calls)
       ELSE IF a.status \notin {200, 204, 404}
       THEN Outcome(prior, AddError(NoDiags, "Error deleting"), calls)
       ELSE Outcome(prior, NoDiags, calls)

\* Delete through HTTPClient.Do (Runner, RunnerToken): status 200 or 404.
DeleteViaDo(k, prior, a) ==
    LET calls == <<Call("DELETE", "object", a)>>
    IN IF ~a.transport
       THEN Outcome(prior, AddError(NoDiags, "Error deleting"), calls)
       ELSE IF a.status # 200 /\ a.status # 404
       THEN Outcome(prior, AddError(NoDiags, "Error deleting"), calls)
       ELSE Outcome(prior, NoDiags, calls)

DeleteOf(k, prior, a) ==
    CASE k = "Pipeline" -> PipelineDelete(prior, a)
      [] k = "Job" -> JobDelete(prior)
      [] k \in {"Policy", "User", "UsageExport"} -> DeleteViaMakeRequest(k, prior, a)
      [] k \in ViaDo -> DeleteViaDo(k, prior, a)
      [] OTHER -> DeleteViaClient(k, prior, a)

\* ------------------------------------------------------------------------
\* Data sources
\* ------------------------------------------------------------------------

\* The configuration of a data source: the identifier and the name it looks
\* up, either of which may be left out.
DataConfigs == [id : {NullStr, "id1"}, name : {NullStr, "n1"}]

\* What a data source saves from the object p the API returned.
DataState(config, p) == [id |-> p.id, name |-> p.name, computed |-> p.state]

\* Context and Organization: by id when one is configured, else by name
\* through the listing (here a listing of the one object answered), else an
\* error with no request.
DataReadByIDOrName(config, a) ==
    LET r == Get(a, TRUE)
    IN IF ~IsNull(config.id)
       THEN IF r.err # NoError
            THEN Outcome(Null, AddError(NoDiags, "Client Error"), <<Call("GET", "object", a)>>)
            ELSE Outcome(DataState(config, r.result.payload), NoDiags,
                         <<Call("GET", "object", a)>>)
       ELSE IF ~IsNull(config.name)
       THEN IF r.err # NoError
            THEN Outcome(Null, AddError(NoDiags, "Client Error"), <<Call("GET", "list", a)>>)
            ELSE IF r.result.payload.name # ValueString(config.name)
            THEN Outcome(Null, AddError(NoDiags, "Not Found"), <<Call("GET", "list", a)>>)
            ELSE Outcome(DataState(config, r.result.payload), NoDiags,
                         <<Call("GET", "list", a)>>)
       ELSE Outcome(Null, AddError(NoDiags, "Missing Required Attribute"), <<>>)

\* Project and Insight: one client.Get.
DataReadViaGet(config, a) ==
    LET r == Get(a, TRUE)
        calls == <<Call("GET", "object", a)>>
    IN IF r.err # NoError
       THEN Outcome(Null, AddError(NoDiags, "Client Error"), calls)
       ELSE Outcome(DataState(config, r.result.payload), NoDiags, calls)

\* Workflow and Workflows: an empty identifier is an error with no request;
\* then MakeRequest, a check for status 200, and the decoding.
DataReadViaMakeRequest(config, a) ==
    LET r == MakeRequest("GET", a)
        calls == <<Call("GET", "object", a)>>
    IN IF ValueString(config.id) = ""
       THEN Outcome(Null, AddError(NoDiags, "Missing ID"), <<>>)
       ELSE IF r.err # NoError
       THEN Outcome(Null, AddError(NoDiags, "Failed to make request"), calls)
       ELSE IF r.resp.StatusCode # 200
       THEN Outcome(Null, AddError(NoDiags, "Failed to get"), calls)
       ELSE IF DecodeFails(r.resp.Body)
       THEN Outcome(Null, AddError(NoDiags, "Failed to decode response"), calls)
       ELSE Outcome(DataState(config, r.resp.Body.payload), NoDiags, calls)

\* Policies: MakeRequest and the decoding, with no look at the status.
PoliciesDataRead(config, a) ==
    LET r == MakeRequest("GET", a)
        calls == <<Call("GET", "object", a)>>
    IN IF r.err # NoError
       THEN Outcome(Null, AddError(NoDiags, "Failed to get policies"), calls)
       ELSE IF DecodeFails(r.resp.Body)
       THEN Outcome(Null, AddError(NoDiags, "Failed to decode response"), calls)
       ELSE Outcome(DataState(config, r.resp.Body.payload), NoDiags, calls)

\* Jobs, Tests and Artifacts: a request built in the handler and sent with
\* HTTPClient.Do; any status but 200 is an error.
DataReadViaDo(config, a) ==
    LET calls == <<Call("GET", "object", a)>>
    IN IF ~a.transport
       THEN Outcome(Null, AddError(NoDiags, "Error making request"), calls)
       ELSE IF a.status # 200
       THEN Outcome(Null, AddError(NoDiags, "Error from API"), calls)
       ELSE IF DecodeFails(a.body)
       THEN Outcome(Null, AddError(NoDiags, "Error parsing response"), calls)
       ELSE Outcome(DataState(config, a.body.payload), NoDiags, calls)

DataKinds ==
    {"ContextData", "OrganizationData", "ProjectData", "InsightData", "WorkflowData",
     "WorkflowsData", "PoliciesData", "JobsData", "TestsData", "ArtifactsData"}

DataReadOf(k, config, a) ==
    CASE k \in {"ContextData", "OrganizationData"} -> DataReadByIDOrName(config, a)
      [] k \in {"ProjectData", "InsightData"} -> DataReadViaGet(config, a)
      [] k \in {"WorkflowData", "WorkflowsData"} -> DataReadViaMakeRequest(config, a)
      [] k = "PoliciesData" -> PoliciesDataRead(config, a)
      [] OTHER -> DataReadViaDo(config, a)

\* ------------------------------------------------------------------------
\* Specification of one resource instance under the host's lifecycle calls
\* ------------------------------------------------------------------------

\* The host's record of a lifecycle call: the response it got back, the plan
\* it sent, the state tracked before the call, the requests the handler
\* issued, and the EnvironmentVariable value last written with success
\* (NullStr before any).
Done(op, plan, prior, r, written) ==
    [op |-> op, plan |-> plan, prior |-> prior, calls |-> r.calls,
     resp |-> [State |-> r.State, Diagnostics |-> r.Diagnostics],
     written |-> written, kept |-> Null]

Written(k, plan, r, before) ==
    IF k = "EnvironmentVariable" /\ ~HasError(r.Diagnostics) THEN plan.value ELSE before

Init ==
    /\ creq = Idle
    /\ cret = Idle
    /\ pg = Idle
    /\ imp = Idle
    /\ kind \in Kinds \cup DataKinds
    /\ tfstate = Null
    /\ last = [op |-> "none", written |-> NullStr, kept |-> Null]
    /\ client \in ConfiguredClients

\* The answers to a handler's second request.  Only Project Create after a
\* follow answered below 400, Job Create and Job Update with an action, and
\* User Update, after a first request answered 200, issue one; in every other
\* call the second answer plays no part.
SecondAnswers(op, k, plan, a1) ==
    IF /\ a1.transport
       /\ \/ op = "Create" /\ k = "Project" /\ a1.status < 400
          \/ k = "Job" /\ ValueString(plan.action) # "" /\ a1.status = 200
          \/ op = "Update" /\ k = "User" /\ a1.status = 200
    THEN {a \in ResourceAnswers :
            \/ ~a.transport
            \/ a.status \in {200, 404, 500}
            \/ a.status = 201 /\ a.body = BodyEmpty}
    ELSE {TransportFailure}

\* The host creates the untracked resource; what Create saved is tracked.
Create ==
    /\ kind \in Kinds
    /\ tfstate = Null
    /\ \E plan \in Plans(kind), a1 \in ResourceAnswers :
      \E a2 \in SecondAnswers("Create", kind, plan, a1) :
        \E r \in {CreateOf(kind, plan, a1, a2)} :
           /\ tfstate' = r.State
           /\ last' = Done("Create", plan, Null, r, Written(kind, plan, r, last.written))
    /\ UNCHANGED <<creq, cret, pg, imp, kind, client>>

\* The host refreshes the tracked resource; the response starts from the
\* prior state, and a refresh that reports an error changes nothing.
Read ==
    /\ tfstate # Null
    /\ \E a \in ResourceAnswers :
        \E r \in {ReadOf(kind, tfstate, a)} :
           /\ tfstate' = IF HasError(r.Diagnostics) THEN tfstate ELSE r.State
           /\ last' = [Done("Read", Null, tfstate, r, last.written)
                        EXCEPT !.kept = IF last.op = "Import" THEN last.kept ELSE Null]
    /\ UNCHANGED <<creq, cret, pg, imp, kind, client>>

\* The host applies a changed plan; the response starts from the prior state.
Update ==
    /\ tfstate # Null
    /\ \E plan \in Plans(kind), a1 \in ResourceAnswers :
      \E a2 \in SecondAnswers("Update", kind, plan, a1) :
        \E r \in {UpdateOf(kind, plan, tfstate, a1, a2)} :
           /\ tfstate' = r.State
           /\ last' = Done("Update", plan, tfstate, r, Written(kind, plan, r, last.written))
    /\ UNCHANGED <<creq, cret, pg, imp, kind, client>>

\* The host destroys the resource; without an error it stops tracking it.
DeleteResource ==
    /\ tfstate # Null
    /\ \E a \in ResourceAnswers :
        \E r \in {DeleteOf(kind, tfstate, a)} :
           /\ tfstate' = IF HasError(r.Diagnostics) THEN tfstate ELSE Null
           /\ last' = Done("Delete", Null, tfstate, r,
                           IF HasError(r.Diagnostics) THEN last.written ELSE NullStr)
    /\ UNCHANGED <<creq, cret, pg, imp, kind, client>>

\* The state the host tracks after an import: the attributes ImportState set,
\* everything else null.
ImportedState(prior, attrs) ==
    [id |-> attrs["id"],
     cfg |-> [f \in DOMAIN prior.cfg |-> NullStr],
     computed |-> NullStr,
     secret |-> NullStr]

\* The host imports an existing object by the id under which it was tracked
\* (resources whose import identifier is the bare id); the state tracked
\* before is kept aside for comparison with the first Read after the import.
ImportResource ==
    /\ tfstate # Null
    /\ kind \in PassthroughKinds
    /\ last.op # "Import"
    /\ LET r == ImportStateOf(kind, tfstate.id)
           imported == ImportedState(tfstate, r.attrs)
       IN /\ tfstate' = imported
          /\ last' = [Done("Import", Null, tfstate,
                           Outcome(imported, r.diags, <<>>), last.written)
                        EXCEPT !.kept = tfstate]
    /\ UNCHANGED <<creq, cret, pg, imp, kind, client>>

\* The host reads a data source; its result goes back in the response and
\* is no tracked resource.
DataSourceRead ==
    /\ kind \in DataKinds
    /\ \E config \in DataConfigs, a \in ResourceAnswers :
      \E r \in {DataReadOf(kind, config, a)} :
        last' = Done("DataRead", config, Null, r, last.written)
    /\ UNCHANGED <<creq, cret, pg, imp, kind, tfstate, client>>

Next == Create \/ Read \/ Update \/ DeleteResource \/ ImportResource \/ DataSourceRead

Spec == Init /\ [][Next]_vars

\* The request failed: in transport, or with a status of 400 or more.
CallFailed(c) == ~c.answer.transport \/ c.answer.status >= 400

LastWas(op) == last.op = op

\* C1 (as claimed): for every resource type, when the GET of Read is answered
\* with 404, Read removes the resource from state and reports no error.
C1_ReadNotFoundRemoves ==
    (/\ LastWas("Read")
     /\ last.calls # <<>>
     /\ last.calls[1].answer.transport
     /\ last.calls[1].answer.status = 404) =>
        /\ last.resp.State = Null
        /\ ~HasError(last.resp.Diagnostics)

\* A 404 that the handler takes to mean that the object is gone: on the GET
\* of Read and on the DELETE of Delete.
GoneAnswer(op, c) ==
    /\ c.answer.transport
    /\ c.answer.status = 404
    /\ \/ op = "Read" /\ c.method = "GET"
       \/ op = "Delete" /\ c.method = "DELETE"

\* C2 (as claimed, a 404 taken to mean "gone" left aside): in every Create,
\* Read, Update and Delete, a failed HTTP call, the GET of a Read that Update
\* invokes included, ends with an error diagnostic in the response and is
\* the last call of the operation; only the failed cancel of Pipeline Delete
\* ends with a warning instead.
C2_FailuresSurfaceAndNoRetry ==
    last.op # "none" =>
        \A i \in 1..Len(last.calls) :
            (CallFailed(last.calls[i]) /\ ~GoneAnswer(last.op, last.calls[i])) =>
                /\ i = Len(last.calls)
                /\ IF kind = "Pipeline" /\ last.op = "Delete"
                   THEN HasWarning(last.resp.Diagnostics)
                   ELSE HasError(last.resp.Diagnostics)

\* C9: for EnvironmentVariable, the tracked value is the value last written
\* by a successful Create or Update, never empty or null, whatever the
\* Reads in between were answered.
C9_ValuePreserved ==
    (kind = "EnvironmentVariable" /\ tfstate # Null) =>
        /\ tfstate.cfg.value = last.written
        /\ tfstate.cfg.value # ""
        /\ ~IsNull(tfstate.cfg.value)

\* C9 witness: a Read, answered with an object whose value differs from the
\* tracked one, succeeded and the tracked value is still the one written.
C9_Witness ==
    /\ kind = "EnvironmentVariable"
    /\ LastWas("Read")
    /\ ~HasError(last.resp.Diagnostics)
    /\ last.calls[1].answer.body.payload.value = "xxxx"
    /\ tfstate # Null
    /\ tfstate.cfg.value = "s2"

BothSet(plan) == ~IsNull(plan.branch) /\ ~IsNull(plan.tag)
NeitherSet(plan) == IsNull(plan.branch) /\ IsNull(plan.tag)

\* C10: Pipeline Create answers a plan with both branch and tag, or with
\* neither, by an error diagnostic, no HTTP request and no state; a plan with
\* exactly one of them goes on to the trigger request.
C10_BranchXorTag ==
    (kind = "Pipeline" /\ LastWas("Create")) =>
        IF BothSet(last.plan) \/ NeitherSet(last.plan)
        THEN /\ HasError(last.resp.Diagnostics)
             /\ last.calls = <<>>
             /\ last.resp.State = Null
             /\ tfstate = Null
        ELSE /\ Len(last.calls) = 1
             /\ last.calls[1].method = "POST"
             /\ \A i \in 1..Len(last.resp.Diagnostics) :
                   last.resp.Diagnostics[i].summary \notin
                       {"Missing Required Attribute", "Conflicting Attributes"}

\* C10 witness: a plan with both branch and tag was rejected before any
\* request.
C10_Witness ==
    /\ kind = "Pipeline"
    /\ LastWas("Create")
    /\ BothSet(last.plan)
    /\ HasError(last.resp.Diagnostics)
    /\ last.calls = <<>>

\* C10 witness of the accepted case: a plan with a branch only was triggered
\* and is tracked.
C10_WitnessAccepted ==
    /\ kind = "Pipeline"
    /\ LastWas("Create")
    /\ last.plan.branch = "main" /\ IsNull(last.plan.tag)
    /\ tfstate # Null

JobActionPlanned == kind = "Job" /\ last.op \in {"Create", "Update"}

\* C11 (as claimed): Job Create and Job Update with action "approve" and no
\* approval_id end with an error and have issued no HTTP request.
C11_ApproveNeedsApprovalID ==
    (/\ JobActionPlanned
     /\ last.plan.action = "approve"
     /\ ValueString(last.plan.approval_id) = "") =>
        /\ HasError(last.resp.Diagnostics)
        /\ last.calls = <<>>

\* C12 (as claimed): after a Job Create or Job Update with an action that
\* ended without error, the action's POST came first, a GET followed it, and
\* the status tracked is the one that GET returned.
C12_StatusIsPostAction ==
    (/\ JobActionPlanned
     /\ ValueString(last.plan.action) # ""
     /\ ~HasError(last.resp.Diagnostics)) =>
        /\ Len(last.calls) = 2
        /\ last.calls[1].method = "POST"
        /\ last.calls[2].method = "GET"
        /\ tfstate # Null
        /\ tfstate.computed = last.calls[2].answer.body.payload.state

ImmutableKinds == {"Context", "CheckoutKey", "RunnerToken", "Pipeline"}

C14_NoDeleteVerb ==
    (kind \in {"Pipeline", "Job"} /\ LastWas("Delete")) =>
        /\ ~HasError(last.resp.Diagnostics)
        /\ tfstate = Null
        /\ \A i \in 1..Len(last.calls) : last.calls[i].method # "DELETE"
        /\ kind = "Job" => last.calls = <<>>
        /\ kind = "Pipeline" =>
              IF last.prior.computed = "running"
              THEN /\ Len(last.calls) = 1
                   /\ last.calls[1].method = "POST"
                   /\ last.calls[1].target = "cancel"
                   /\ CallFailed(last.calls[1]) => HasWarning(last.resp.Diagnostics)
              ELSE last.calls = <<>>

\* C14 witness: a running Pipeline was deleted, the cancel failed, and the
\* Delete ended with a warning only.
C14_Witness ==
    /\ kind = "Pipeline"
    /\ LastWas("Delete")
    /\ last.prior.computed = "running"
    /\ CallFailed(last.calls[1])
    /\ HasWarning(last.resp.Diagnostics)
    /\ tfstate = Null

\* C14 witness for Job: a tracked Job was deleted without any request.
C14_WitnessJob ==
    /\ kind = "Job"
    /\ LastWas("Delete")
    /\ last.calls = <<>>
    /\ tfstate = Null

\* The Read that ended last succeeded and left the resource tracked.
ReadSucceeded ==
    /\ LastWas("Read")
    /\ ~HasError(last.resp.Diagnostics)
    /\ last.resp.State # Null

\* The object the API returned to the last Read.
ReadObject == last.calls[1].answer.body.payload

\* C15 (as claimed): after a RunnerToken was tracked with a non-empty token,
\* a successful Read leaves resource_class and nickname as they were and the
\* token unset.
C15_ReadUnsetsToken ==
    (/\ kind = "RunnerToken"
     /\ ReadSucceeded
     /\ ~IsNull(last.prior.secret) /\ last.prior.secret # "") =>
        /\ last.resp.State.secret \in {NullStr, ""}
        /\ ReadObject.name = last.prior.cfg.name =>
              last.resp.State.cfg = last.prior.cfg

\* C15 (amended): a successful RunnerToken Read takes resource_class and
\* nickname from the API's answer and leaves the token exactly as it was
\* tracked before, whatever the answer holds; the tracked state is the
\* response's state.
C15_ReadKeepsToken ==
    (kind = "RunnerToken" /\ ReadSucceeded) =>
        /\ last.resp.State.secret = last.prior.secret
        /\ last.resp.State.cfg.name = ReadObject.name
        /\ tfstate = last.resp.State

\* C15 witness: Create stored the token "xxxx"; a Read answered with an
\* object holding another token text succeeded and the token is still "xxxx".
C15_Witness ==
    /\ kind = "RunnerToken"
    /\ ReadSucceeded
    /\ last.prior.secret = "xxxx"
    /\ ReadObject.value = "tok"
    /\ tfstate.secret = "xxxx"

\* The API part of a tracked identifier: the identifier itself, or the last
\* component of a composite one.
RemoteID(k, id) == IF k \in {"EnvironmentVariable", "CheckoutKey"} THEN id[2] ELSE id

\* C16 (as claimed): every successful Create saves a non-empty identifier,
\* and a successful Read answered with the same object leaves the identifier
\* as it was.
C16_IdentifierNonEmptyAndStable ==
    /\ (LastWas("Create") /\ ~HasError(last.resp.Diagnostics)) =>
          /\ last.resp.State # Null
          /\ RemoteID(kind, last.resp.State.id) # ""
    /\ (/\ ReadSucceeded
        /\ last.kept = Null
        /\ kind # "EnvironmentVariable"
        /\ ReadObject.id = RemoteID(kind, last.prior.id)) =>
          last.resp.State.id = last.prior.id

\* C17 (as claimed): an Update of a Context whose plan changes the name
\* succeeds and the tracked name is the planned one.
C17_ContextRename ==
    (/\ kind = "Context"
     /\ LastWas("Update")
     /\ last.plan.name # last.prior.cfg.name) =>
        /\ ~HasError(last.resp.Diagnostics)
        /\ tfstate.cfg.name = last.plan.name

\* The object returned to the Read after an import is the one the state kept
\* aside was read from.
RemoteUnchangedSinceKept ==
    /\ ReadObject.id = last.kept.id
    /\ ReadObject.name = last.kept.cfg.name
    /\ ReadObject.state = last.kept.computed

\* C18: for a RunnerToken, import by its tracked id followed by a successful
\* Read of the unchanged remote object leaves id, resource_class, nickname
\* and created_at as they were tracked before the import; the token is not
\* part of the comparison.
C18_ImportThenReadRestores ==
    (/\ kind = "RunnerToken"
     /\ ReadSucceeded
     /\ last.kept # Null
     /\ RemoteUnchangedSinceKept) =>
        /\ tfstate.id = last.kept.id
        /\ tfstate.cfg = last.kept.cfg
        /\ tfstate.computed = last.kept.computed

\* C18 witness: a RunnerToken created with a token was imported by its id and
\* read back; the attributes are those tracked before, the token is null.
C18_Witness ==
    /\ kind = "RunnerToken"
    /\ ReadSucceeded
    /\ last.kept # Null
    /\ RemoteUnchangedSinceKept
    /\ last.kept.secret = "xxxx"
    /\ IsNull(tfstate.secret)
    /\ tfstate.id = "id1"

\* ------------------------------------------------------------------------
\* C21: every HTTP request an operation of a resource or data source issues,
\* whether MakeRequest built it or the handler did, carries the header
\* Circle-Token with the token of the configured client.
\* ------------------------------------------------------------------------
C21_EveryRequestCarriesToken ==
    last.op # "none" =>
        \A i \in DOMAIN last.calls :
            /\ "Circle-Token" \in DOMAIN last.calls[i].headers
            /\ last.calls[i].headers["Circle-Token"] = client.ApiToken

\* A Runner Delete and a Jobs data source read sent their own request.
C21_Witness ==
    /\ kind \in {"Runner", "JobsData"}
    /\ last.op \in {"Delete", "DataRead"}
    /\ last.calls # <<>>
    /\ last.calls[1].headers["Circle-Token"] = "cfg-token"

\* An Update of User, Job or UsageExport got as far as its nested Read and
\* reported no error.
EndedWithNestedRead ==
    /\ LastWas("Update")
    /\ kind \in {"User", "Job", "UsageExport"}
    /\ ~HasError(last.resp.Diagnostics)
    /\ last.calls # <<>>
    /\ last.calls[Len(last.calls)].method = "GET"

\* C23 (as claimed): for User, Job and UsageExport, whose Update ends with a
\* call of Read on a newly built request and response, the state a
\* successful Update hands back to the host is the state that nested Read
\* computed (removal on not-found included), not the prior state.
C23_UpdateReturnsNestedRead ==
    EndedWithNestedRead =>
        last.resp.State =
            ReadViaMakeRequest(kind, last.prior, last.calls[Len(last.calls)].answer).State

\* ------------------------------------------------------------------------
\* C24: whenever MakeRequest returns a response without error, its status is
\* below 400; so the branch of Job, Policy, User and UsageExport Read that
\* removes the resource on 404 is never taken, and a 404 reaches the host as
\* an error with the resource still tracked.
\* ------------------------------------------------------------------------
C24_NotFoundBranchDead ==
    /\ last.op # "none" =>
        \A i \in DOMAIN last.calls :
            LET r == MakeRequest(last.calls[i].method, last.calls[i].answer)
            IN r.err = NoError => r.resp.StatusCode < 400
    /\ (LastWas("Read") /\ kind \in ViaMakeRequest) =>
        /\ last.resp.State # Null
        /\ tfstate # Null
        /\ (last.calls[1].answer.transport /\ last.calls[1].answer.status = 404) =>
            /\ HasError(last.resp.Diagnostics)
            /\ tfstate = last.prior

\* A Read of one of the four was answered 404.
C24_Witness ==
    /\ LastWas("Read")
    /\ kind \in ViaMakeRequest
    /\ last.calls[1].answer.transport
    /\ last.calls[1].answer.status = 404
    /\ HasError(last.resp.Diagnostics)

\* The follow POST of the last Create succeeded.
FollowSucceeded == ~CallFailed(last.calls[1])

\* The GET of the project succeeded and its body decoded.
ProjectWasRead ==
    /\ Len(last.calls) = 2
    /\ ~CallFailed(last.calls[2])
    /\ ~DecodeFails(last.calls[2].answer.body)

\* C27: Project Create is two HTTP calls, the follow POST and then the GET
\* of the project, and saves state only when both succeed.  When the POST
\* succeeds and the GET fails, Create reports an error and leaves nothing
\* tracked, while the project stays followed: nothing issues an unfollow.
C27_ProjectCreateTwoCalls ==
    (LastWas("Create") /\ kind = "Project") =>
        /\ Len(last.calls) \in {1, 2}
        /\ last.calls[1].method = "POST" /\ last.calls[1].target = "follow"
        /\ (Len(last.calls) = 2) <=> FollowSucceeded
        /\ Len(last.calls) = 2 => last.calls[2].method = "GET"
        /\ (last.resp.State # Null) <=> (FollowSucceeded /\ ProjectWasRead)
        /\ (tfstate # Null) <=> (FollowSucceeded /\ ProjectWasRead)
        /\ HasError(last.resp.Diagnostics) <=> ~(FollowSucceeded /\ ProjectWasRead)
        /\ \A i \in DOMAIN last.calls : last.calls[i].target # "unfollow"

\* The project was followed, the GET failed, and nothing is tracked.
C27_Witness ==
    /\ LastWas("Create")
    /\ kind = "Project"
    /\ FollowSucceeded
    /\ Len(last.calls) = 2
    /\ CallFailed(last.calls[2])
    /\ HasError(last.resp.Diagnostics)
    /\ tfstate = Null

\* The last call of a Job was op and saved the job it got.
JobMapped(op) == kind = "Job" /\ LastWas(op) /\ ~HasError(last.resp.Diagnostics)

\* The approval_request_id of the GET's answer, null when it has none.
ApprovalOfAnswer ==
    LET p == last.calls[1].answer.body.payload
    IN IF p.approval # "" THEN p.approval ELSE NullStr

\* C29: Job Create and Job Read leave action as the plan or the state has
\* it, and overwrite approval_id with the approval_request_id of the API's
\* answer, null when the answer has none.
C29_JobKeepsActionTakesApproval ==
    /\ JobMapped("Create") =>
        /\ last.resp.State.cfg.action = last.plan.action
        /\ last.resp.State.cfg.approval_id = ApprovalOfAnswer
    /\ JobMapped("Read") =>
        /\ last.resp.State.cfg.action = last.prior.cfg.action
        /\ last.resp.State.cfg.approval_id = ApprovalOfAnswer

\* A Job was created to approve with approval_id "ap1"; the API's answer
\* had no approval_request_id and the state holds null.
C29_Witness ==
    /\ JobMapped("Create")
    /\ last.plan.action = "approve"
    /\ last.plan.approval_id = "ap1"
    /\ tfstate.cfg.action = "approve"
    /\ tfstate.cfg.approval_id = NullStr

\* A Read replaced a null approval_id with the one the API answered.
C29_WitnessRead ==
    /\ JobMapped("Read")
    /\ last.prior.cfg.approval_id = NullStr
    /\ tfstate.cfg.approval_id = "ap2"

\* ------------------------------------------------------------------------
\* C30: Runner Delete and RunnerToken Delete end without error exactly when
\* the DELETE was answered 200 or 404; any other status, 204 included, and
\* a transport failure are reported as errors.
\* ------------------------------------------------------------------------
C30_RunnerDeleteOKOn200Or404 ==
    (kind \in ViaDo /\ LastWas("Delete")) =>
        /\ Len(last.calls) = 1
        /\ last.calls[1].method = "DELETE"
        /\ ~HasError(last.resp.Diagnostics) <=>
              (last.calls[1].answer.transport /\ last.calls[1].answer.status \in {200, 404})
        /\ (tfstate = Null) <=> ~HasError(last.resp.Diagnostics)

\* A runner's DELETE was answered 204: an error, and the runner is still
\* tracked.
C30_Witness ==
    /\ kind \in ViaDo
    /\ LastWas("Delete")
    /\ last.calls[1].answer.status = 204
    /\ HasError(last.resp.Diagnostics)
    /\ tfstate # Null

\* A DELETE answered 404 ended the tracking without error.
C30_WitnessGone ==
    /\ kind \in ViaDo
    /\ LastWas("Delete")
    /\ last.calls[1].answer.status = 404
    /\ tfstate = Null

\* ------------------------------------------------------------------------
\* Schedule Create: the request payload
\* ------------------------------------------------------------------------

\* A timetable attribute of the plan: null, or set to the value v
\* (types.Int64 / types.List).
Unset(zero) == [null |-> TRUE, v |-> zero]
SetTo(v) == [null |-> FALSE, v |-> v]

TimetableFields == {"per_hour", "hours_of_day", "days_of_week", "days_of_month", "months"}

\* The timetables a plan may hold.
Timetables ==
    [per_hour : {Unset(0), SetTo(1), SetTo(2)},
     hours_of_day : {Unset(<<>>), SetTo(<<9>>), SetTo(<<9, 17>>)},
     days_of_week : {Unset(<<>>), SetTo(<<"MON">>)},
     days_of_month : {Unset(<<>>), SetTo(<<1>>)},
     months : {Unset(<<>>), SetTo(<<"JAN">>)}]

SchedulePlans ==
    [name : {"n1"}, description : {"d1"}, timetable : Timetables,
     attribution_actor : {"actor1"}, parameters : {<<>>}]

\* The TimetableAPI value Create builds from the plan's timetable: per_hour,
\* hours_of_day and days_of_week are copied when not null; nothing else is.
TimetableAPIOf(t) ==
    [PerHour |-> IF ~t.per_hour.null THEN t.per_hour.v ELSE 0,
     HoursOfDay |-> IF ~t.hours_of_day.null THEN t.hours_of_day.v ELSE <<>>,
     DaysOfWeek |-> IF ~t.days_of_week.null THEN t.days_of_week.v ELSE <<>>,
     DaysOfMonth |-> <<>>,
     Months |-> <<>>]

\* One key of a JSON object under omitempty: left out when the value is the
\* zero value (0, or a list without elements).
OmitEmpty(key, value, zero) == IF value = zero THEN <<>> ELSE key :> value

\* json.Marshal of a TimetableAPI: every field is omitempty.
MarshalTimetable(api) ==
    OmitEmpty("per_hour", api.PerHour, 0)
    @@ OmitEmpty("hours_of_day", api.HoursOfDay, <<>>)
    @@ OmitEmpty("days_of_week", api.DaysOfWeek, <<>>)
    @@ OmitEmpty("days_of_month", api.DaysOfMonth, <<>>)
    @@ OmitEmpty("months", api.Months, <<>>)

\* The body of the POST of Schedule Create.
CreateScheduleRequest(plan) ==
    [name |-> plan.name, timetable |-> MarshalTimetable(TimetableAPIOf(plan.timetable)),
     attribution_actor |-> plan.attribution_actor]
    @@ OmitEmpty("description", plan.description, "")
    @@ OmitEmpty("parameters", plan.parameters, <<>>)

ScheduleInit ==
    /\ creq = Idle
    /\ cret = Idle
    /\ pg = Idle
    /\ imp = Idle
    /\ kind = "Schedule"
    /\ tfstate = Null
    /\ last = [op |-> "none", written |-> NullStr, kept |-> Null]
    /\ client \in ConfiguredClients

\* Schedule Create: build the payload from the plan, POST it, and save the
\* plan with the id of the answer.
ScheduleCreate ==
    /\ tfstate = Null
    /\ \E plan \in SchedulePlans, a \in ResourceAnswers :
        LET r == CreateViaClient("Schedule", plan, a)
            sent == [method |-> "POST", target |-> "schedule", answer |-> a,
                     headers |-> MakeRequestHeaders(client),
                     body |-> CreateScheduleRequest(plan)]
        IN /\ tfstate' = r.State
           /\ last' = [op |-> "Create", plan |-> plan, prior |-> Null,
                       calls |-> <<sent>>,
                       resp |-> [State |-> r.State, Diagnostics |-> r.Diagnostics],
                       written |-> NullStr, kept |-> Null]
    /\ UNCHANGED <<creq, cret, pg, imp, kind, client>>

\* The plans of an Update: the name changed, the description kept or not, and
\* timetable, attribution_actor and parameters other than what was created.
ScheduleUpdatePlans ==
    [name : {"n2"}, description : {"d1", "d2"},
     timetable : {[per_hour |-> SetTo(2), hours_of_day |-> SetTo(<<17>>),
                   days_of_week |-> Unset(<<>>), days_of_month |-> Unset(<<>>),
                   months |-> SetTo(<<"FEB">>)]},
     attribution_actor : {"actor2"}, parameters : {<<"deploy">>}]

\* The schedules the API answers a GET or PUT with: name, description and
\* the timestamps (state), and a timetable, actor and parameters of its own.
SchedulePayloads ==
    [id : {"id1"}, name : {"n2", "n3"}, description : {"d3"}, state : {"t1"},
     timetable : {[per_hour |-> 3]}, attribution_actor : {"actor3"},
     parameters : {<<"server">>}]

ScheduleAnswers ==
    {TransportFailure, [transport |-> TRUE, status |-> 404, body |-> BodyMsgOnly]}
    \cup {[transport |-> TRUE, status |-> 200, body |-> PayloadBody(p)] : p \in SchedulePayloads}

\* A bug: the PUT carries the timetable too.
UpdateScheduleRequestWithTimetable(plan) ==
    [name |-> plan.name, description |-> plan.description,
     timetable |-> MarshalTimetable(TimetableAPIOf(plan.timetable))]

\* The body of the PUT of Schedule Update: a map of name and description.
UpdateScheduleRequest(plan) == [name |-> plan.name, description |-> plan.description]

\* Schedule Update: PUT the body, and save the plan with updated_at (here
\* the computed attribute) from the response.
ScheduleUpdate ==
    /\ tfstate # Null
    /\ \E plan \in ScheduleUpdatePlans, a \in ScheduleAnswers :
        LET r == UpdateViaPut("Schedule", plan, tfstate, a)
            sent == [method |-> "PUT", target |-> "schedule", answer |-> a,
                     headers |-> MakeRequestHeaders(client),
                     body |-> UpdateScheduleRequest(plan)]
        IN /\ tfstate' = r.State
           /\ last' = [op |-> "Update", plan |-> plan, prior |-> tfstate,
                       calls |-> <<sent>>,
                       resp |-> [State |-> r.State, Diagnostics |-> r.Diagnostics],
                       written |-> NullStr, kept |-> Null]
    /\ UNCHANGED <<creq, cret, pg, imp, kind, client>>

\* What Schedule Read takes from the schedule p the API returned: name,
\* description and the timestamps.
ScheduleRefreshed(prior, p) ==
    [prior EXCEPT !.cfg.name = p.name, !.cfg.description = p.description,
                  !.computed = p.state]

\* Schedule Read: GET the schedule; any error of the client is an error
\* diagnostic and the state stays as it was.
ScheduleReadOf(prior, a) ==
    LET r == Get(a, TRUE)
        calls == <<Call("GET", "schedule", a)>>
    IN IF r.err # NoError
       THEN Outcome(prior, AddError(NoDiags, "Client Error"), calls)
       ELSE Outcome(ScheduleRefreshed(prior, r.result.payload), NoDiags, calls)

ScheduleRead ==
    /\ tfstate # Null
    /\ \E a \in ScheduleAnswers :
        LET r == ScheduleReadOf(tfstate, a)
        IN /\ tfstate' = IF HasError(r.Diagnostics) THEN tfstate ELSE r.State
           /\ last' = [op |-> "Read", plan |-> Null, prior |-> tfstate,
                       calls |-> r.calls,
                       resp |-> [State |-> r.State, Diagnostics |-> r.Diagnostics],
                       written |-> NullStr, kept |-> Null]
    /\ UNCHANGED <<creq, cret, pg, imp, kind, client>>

ScheduleNext == ScheduleCreate \/ ScheduleUpdate \/ ScheduleRead

SpecSchedule == ScheduleInit /\ [][ScheduleNext]_vars

\* C19 (as claimed): every timetable field that the plan of Schedule Create
\* sets is in the timetable of the POST body, with the planned value.
C19_TimetableFieldsSent ==
    (kind = "Schedule" /\ LastWas("Create")) =>
        \A f \in TimetableFields :
            ~last.plan.timetable[f].null =>
                /\ f \in DOMAIN last.calls[1].body.timetable
                /\ last.calls[1].body.timetable[f] = last.plan.timetable[f].v

\* C28: Schedule Update sends a PUT whose body holds name and description
\* and nothing else, then saves the whole plan with updated_at from the
\* response: a change of timetable, attribution_actor or parameters is
\* recorded in state without being sent.  Schedule Read refreshes name,
\* description and the timestamps only.
C28_ScheduleUpdateSendsNameDescription ==
    /\ (kind = "Schedule" /\ LastWas("Update")) =>
        /\ Len(last.calls) = 1
        /\ last.calls[1].method = "PUT"
        /\ last.calls[1].body = [name |-> last.plan.name,
                                 description |-> last.plan.description]
        /\ IF HasError(last.resp.Diagnostics)
           THEN last.resp.State = last.prior
           ELSE /\ last.resp.State.cfg = last.plan
                /\ last.resp.State.id = last.prior.id
                /\ last.resp.State.computed = last.calls[1].answer.body.payload.state
    /\ (kind = "Schedule" /\ LastWas("Read") /\ ~HasError(last.resp.Diagnostics)) =>
        LET p == last.calls[1].answer.body.payload
        IN /\ last.resp.State.id = last.prior.id
           /\ last.resp.State.cfg.name = p.name
           /\ last.resp.State.cfg.description = p.description
           /\ last.resp.State.computed = p.state
           /\ last.resp.State.cfg.timetable = last.prior.cfg.timetable
           /\ last.resp.State.cfg.attribution_actor = last.prior.cfg.attribution_actor
           /\ last.resp.State.cfg.parameters = last.prior.cfg.parameters

\* An Update changed timetable, actor and parameters: they are in the state
\* and not in the body.
C28_Witness ==
    /\ kind = "Schedule"
    /\ LastWas("Update")
    /\ ~HasError(last.resp.Diagnostics)
    /\ last.plan.timetable # last.prior.cfg.timetable
    /\ last.plan.attribution_actor # last.prior.cfg.attribution_actor
    /\ tfstate.cfg.timetable = last.plan.timetable
    /\ DOMAIN last.calls[1].body = {"name", "description"}

\* A Read after such an Update left the timetable of the state alone.
C28_WitnessRead ==
    /\ kind = "Schedule"
    /\ LastWas("Read")
    /\ ~HasError(last.resp.Diagnostics)
    /\ tfstate.cfg.name = "n3"
    /\ tfstate.cfg.parameters = <<"deploy">>

\* ------------------------------------------------------------------------
\* Concurrent operations on two instances of one resource type
\* ------------------------------------------------------------------------

\* The host runs the handlers of independent instances in parallel.  Each
\* call has its own request and response and its handler its own locals;
\* what the calls share is the client the provider's Configure built.
\* Here creq[i] is the call in flight for instance i, imp[i] the client
\* attached for it, tfstate[i] and last[i] as in Spec.
Instances == {1, 2}

\* One resource of each way of sending: client.Get and its siblings,
\* MakeRequest, and a request built in the handler.
ConcKinds == {"Context", "Policy", "Runner"}

ConcConfigs ==
    {[api_token |-> NullAttr, base_url |-> NullAttr],
     [api_token |-> Known("cfg-token"), base_url |-> Known("https://ci.example/api/v2")]}

ConcAnswers ==
    {TransportFailure, [transport |-> TRUE, status |-> 404, body |-> BodyMsgOnly]}
    \cup {[transport |-> TRUE, status |-> 200, body |-> PayloadBody(p)] :
            p \in {q \in Payloads : q.name = "n2"}}

\* One plan, other than what the API answers with.
ConcPlans(k) == {plan \in Plans(k) : plan.name = "n1"}

\* A bug: the result of one call is stored for every instance.
StoreForAll(f, i, v) == [j \in DOMAIN f |-> v]

\* A call writes what belongs to its own request and response.
StoreFor(f, i, v) == [f EXCEPT ![i] = v]

\* The handler of call c, run on c's request and the answer to its request.
HandlerOf(k, c, a) ==
    CASE c.fn = "Create" -> CreateOf(k, c.plan, a, TransportFailure)
      [] c.fn = "Read" -> ReadOf(k, c.prior, a)
      [] c.fn = "Update" -> UpdateOf(k, c.plan, c.prior, a, TransportFailure)
      [] OTHER -> DeleteOf(k, c.prior, a)

\* What the host tracks after the call: a Read or Delete that reports an
\* error changes nothing, a Delete without error ends the tracking.
Tracked(c, r) ==
    CASE c.fn = "Read" -> IF HasError(r.Diagnostics) THEN c.prior ELSE r.State
      [] c.fn = "Delete" -> IF HasError(r.Diagnostics) THEN c.prior ELSE Null
      [] OTHER -> r.State

ConcInit ==
    /\ creq = [i \in Instances |-> Idle]
    /\ cret = Idle
    /\ pg = Idle
    /\ imp = [i \in Instances |-> Null]
    /\ kind \in ConcKinds
    /\ tfstate = [i \in Instances |-> Null]
    /\ last = [i \in Instances |-> [op |-> "none"]]
    /\ client = Null

\* The provider's Configure builds the client, once.
ConcConfigure ==
    /\ client = Null
    /\ \E config \in ConcConfigs :
        client' = ProviderConfigure(config, "env-token").ResourceData
    /\ UNCHANGED <<creq, cret, pg, imp, kind, tfstate, last>>

\* Configure of the resource attaches the provider's client for instance i.
ConcResourceConfigure(i) ==
    /\ client # Null
    /\ imp[i] = Null
    /\ imp' = StoreFor(imp, i, AttachClient(client))
    /\ UNCHANGED <<creq, cret, pg, kind, tfstate, last, client>>

\* The host starts a call for instance i: the handler reads the plan and the
\* prior state from its request and sends its HTTP request.
Begin(i) ==
    /\ imp[i] # Null
    /\ creq[i] = Idle
    /\ \E fn \in {"Create", "Read", "Update", "Delete"}, plan \in ConcPlans(kind) :
        /\ (fn = "Create") = (tfstate[i] = Null)
        /\ creq' = StoreFor(creq, i, [fn |-> fn, plan |-> plan, prior |-> tfstate[i]])
    /\ UNCHANGED <<cret, pg, imp, kind, tfstate, last, client>>

\* The request of instance i is answered and its handler returns.
Finish(i) ==
    /\ creq[i] # Idle
    /\ \E a \in ConcAnswers :
        LET r == HandlerOf(kind, creq[i], a)
        IN /\ tfstate' = StoreFor(tfstate, i, Tracked(creq[i], r))
           /\ last' = StoreFor(last, i,
                    [op |-> creq[i].fn, request |-> creq[i], answer |-> a,
                     calls |-> r.calls,
                     resp |-> [State |-> r.State, Diagnostics |-> r.Diagnostics],
                     during |-> {j \in Instances \ {i} : creq[j] # Idle}])
    /\ creq' = StoreFor(creq, i, Idle)
    /\ UNCHANGED <<cret, pg, imp, kind, client>>

ConcNext ==
    \/ ConcConfigure
    \/ \E i \in Instances : ConcResourceConfigure(i)
    \/ \E i \in Instances : Begin(i)
    \/ \E i \in Instances : Finish(i)

SpecConcurrent == ConcInit /\ [][ConcNext]_vars

\* The response of every finished call is what its handler makes of its own
\* request and the answer to it, sent with the shared client's token.
OwnResult ==
    \A i \in Instances :
        last[i].op # "none" =>
            LET r == HandlerOf(kind, last[i].request, last[i].answer)
            IN /\ last[i].resp = [State |-> r.State, Diagnostics |-> r.Diagnostics]
               /\ last[i].calls = r.calls
               /\ \A n \in DOMAIN last[i].calls :
                    last[i].calls[n].headers["Circle-Token"] = client.ApiToken

\* Once built, the client keeps its token and base URL.
ClientKept == client # Null => client' = client

\* A step touches the call, the state and the response of one instance only.
OneInstanceTouched ==
    \E i \in Instances : \A j \in Instances \ {i} :
        /\ creq'[j] = creq[j]
        /\ imp'[j] = imp[j]
        /\ tfstate'[j] = tfstate[j]
        /\ last'[j] = last[j]

====
